---- MODULE Spec2Model ----
(***************************************************************************)
(* A model of the psrp client runtime: the task-based facade               *)
(* (src/src/psrp/_async.py), the thread-based facade                       *)
(* (src/src/psrp/_sync.py) and the host method lookup                      *)
(* (src/src/psrp/_host.py).                                                *)
(*                                                                         *)
(* The module holds several specifications over one set of variables.     *)
(* Each specification drives one part of the runtime and leaves the       *)
(* variables of the other parts at their constructed values:              *)
(*   Spec        an opened pool, its pipelines, their output and results  *)
(*   SpecHost    the host calls of the peer                               *)
(*   SpecClose   open / close of a pool, concurrent close() of pipelines  *)
(*   SpecReconnect  disconnect() and connect() of a pool                  *)
(*   SpecPool    the availability operations of a pool                    *)
(*   SpecColl    a data collection (AsyncPSDataCollection / PSDataStream) *)
(*   SpecWaiter  a MessageResult and calls of its set()                   *)
(*   SpecStop    stop() of running pipelines                              *)
(*   SpecBroken  the terminal failure of the connection                   *)
(*   SpecCipher  the session key exchange of invoke_async                 *)
(*   SpecIter    iterators over a data collection                         *)
(*   SpecConfig  construction of a pool and its runspace counts           *)
(*   SpecTable   the pipeline tables of several pools                     *)
(*   SpecComplete  the completion callback of invoke_async                 *)
(*   SpecArm     invoke_async step by step, state events with Running      *)
(*   SpecLate    events of pipelines the application has closed            *)
(*   SpecHandshake  connect() on a pool obtained from enumeration          *)
(*   SpecRecords record and output events of every type                    *)
(*   SpecAgain   a pipeline invoked again after it has ended               *)
(*   SpecSubscribers  callbacks of the caller that fail                    *)
(*   SpecLookup  get_host_method over every identifier                     *)
(* The facade a run belongs to is chosen in the initial state.  The codec *)
(* (psrpcore) and the transport are collaborators: the model holds what   *)
(* the runtime reads of them (the pool and pipeline state the codec keeps *)
(* up to date as it decodes events) and logs what the runtime asks of     *)
(* them (transport operations, host responses).                           *)
(***************************************************************************)
EXTENDS Integers, Sequences, FiniteSets, TLC

\* ------------------------------------------------------------------------
\* Bounds of the model
\* ------------------------------------------------------------------------
MaxSetCalls == 3      \* set() calls made on one MessageResult
MaxCi == 2            \* call ids are drawn from 1..MaxCi
MaxItems == 2         \* items one data collection is made to hold
MaxCompletes == 2     \* complete() / finalize() calls made on one collection
MaxVal == 2           \* record and output values are drawn from 1..MaxVal
NPipes == 2           \* pipelines of the pool
MaxEvents == 3        \* host call, record and output events of one run
MaxOpened == 2        \* RunspacePoolState Opened events the peer sends one pool
MaxDisconnects == 1   \* disconnect() calls made on one pool
MaxInputs == 2        \* input items given to one invoke_async call
NIters == 2           \* iterators made over one data collection
MaxAppCalls == 2      \* application side append / insert calls on one collection
MaxInvocations == 2   \* invoke_async calls made on one pipeline
MaxSubscribers == 2   \* callbacks subscribed to one event handler
MaxRuns == 3          \* runs of callbacks followed
MaxLookups == 1       \* host calls received in a run over every identifier
MaxRunspaces == 2     \* runspace counts are drawn from 0..MaxRunspaces
NPools == 2           \* pools whose pipeline tables are followed
MaxObjs == 3          \* pipeline objects made over all pools

\* ------------------------------------------------------------------------
\* Values
\* ------------------------------------------------------------------------
Facades == {"async", "sync"}

NoPid == 0            \* event.pipeline_id of a pool level event (falsy)
NoCi == 0             \* ci field of an event that carries none
NoVal == 0            \* payload of an event that carries none
HostErrorRecord == 0  \* the ErrorRecord built for a failed host call

Pipes == 1..NPipes
Owners == {NoPid} \cup Pipes      \* the pool and its pipelines
Vals == 1..MaxVal
\* Pipeline ids: the id pipeline object o is constructed with is o, the id
\* of the command the server holds for pool k is MaxObjs + k.
PipelineIds == 1..(MaxObjs + NPools)

PoolStates == {"BeforeOpen", "Opening", "Opened", "Disconnecting", "Disconnected",
               "Closing", "Closed", "Broken"}
PipeStates == {"NotStarted", "Running", "Stopping", "Stopped", "Completed", "Failed",
               "Disconnected"}
StreamNames == {"debug", "error", "information", "progress", "verbose", "warning"}

\* A PSRP event as the codec hands it to the runtime.  Fields an event kind
\* does not carry hold "-" / NoCi / NoPid / NoVal.  val is the record, the
\* output item, the count or the success flag (1 / 0); text is the method
\* identifier of a host call or the reason of a state event.
Ev(type, pid, st, ci, val, text) ==
    [type |-> type, pipeline_id |-> pid, state |-> st, ci |-> ci, val |-> val,
     text |-> text]

NoEvent == Ev("-", NoPid, "-", NoCi, NoVal, "")

\* The message type of a record event of each stream.
RecordType(name) ==
    CASE name = "debug" -> "DebugRecord"
      [] name = "error" -> "ErrorRecord"
      [] name = "information" -> "InformationRecord"
      [] name = "progress" -> "ProgressRecord"
      [] name = "verbose" -> "VerboseRecord"
      [] name = "warning" -> "WarningRecord"

RecordTypes == {RecordType(name) : name \in StreamNames}

VARIABLES
    facade,         \* which facade the objects of this run belong to
    \* -- MessageResult (SpecWaiter)
    waiter,         \* one MessageResult
    set_returns,    \* the values its set() calls returned, in call order
    \* -- one data collection (SpecColl)
    items,          \* the list contents
    completed,      \* AsyncPSDataCollection.completed / PSDataStream._complete
    fired,          \* calls made so far of each AsyncEventHandler of the collection
    append_pc,      \* where the dispatcher's _append call stands: "idle", "adding"
    append_val,     \* the value of the _append call in progress
    complete_pc,    \* where the complete() call stands: "idle", "on_completed"
    complete_returns, \* complete() / finalize() calls that have returned
    added_idx,      \* PSDataStream._added_idx, the queue of indexes
    blocking_iterator, \* AsyncPSDataCollection.blocking_iterator
    iters,          \* per iterator over the collection: its position and yield
    add_lock,       \* the iterator holding the lock of _add_condition, 0 if free
    app_calls,      \* application side append / insert calls made so far
    complete_len,   \* the length at the first complete() / finalize(), or NotYet
    coll_error,     \* the error the last application side call raised, or "none"
    \* -- the pool
    state,          \* the pool state (pool.state of the codec)
    new_client,     \* RunspacePool._new_client
    host,           \* the pool's host: which capability sets it has
    pipeline_table, \* the pipeline ids in pipeline_table
    result_handler, \* _result_handler of the pool (owner 0) and of each pipeline
    wait_result,    \* per waiting call: the event its MessageResult captured
    ci_table,       \* RunspacePool._ci_table (thread-based): ci -> event
    host_responses, \* the host responses queued on the codec, in order
    ops,            \* per owner: the transport operations issued for it, in order
    n_received,     \* host call, record and output events received so far
    last_event,     \* the last of them
    last_call,      \* what the host method did in the dispatch of the last event
    listener,       \* the reader thread: "none", "running", "blocked", "ended"
    pool_call,      \* the pool level call of the application in progress
    pool_raised,    \* the error the last pool level call raised, or "none"
    avail,          \* per call id: the availability operation that was given it
    peer_pool,      \* the pool events the peer still owes: states, or handshake types
    peer_avail,     \* per call id: the availability response of the peer
    \* -- the pipelines
    phost,          \* the host given to the pipeline, "none" when not given
    pstate,         \* the pipeline state (pipeline.state of the codec)
    streams,        \* per owner and stream name: the records of the stream
    explicit_output, \* AsyncPipeline._explicit_output
    output_target,  \* which stream object _stream_output / _output_stream is
    out,            \* per pipeline and stream object: the output items
    task,           \* the invoke / connect task of the pipeline
    sync_completed, \* Pipeline._completed / _completed_stop hold an Event
    close_pc,       \* per pipeline and caller: where its close() call stands
    close_lock,     \* per pipeline: the caller holding _close_lock, or "free"
    peer,           \* per pipeline: what the peer is doing with it
    final_event,    \* per pipeline: the terminal state event the peer sent
    \* -- the session key and the invoke calls that send input
    cipher,         \* the codec holds the session key of the pool
    invoking,       \* per pipeline: the invoke_async call that sends its input
    received,       \* the host call, record and output events received, in order
    \* -- the runspace counts of the pool
    runspaces,      \* the constructor call and min_runspaces / max_runspaces
    setting,        \* per call id: the count the codec sets when the peer agrees
    \* -- the pipeline tables of several pools
    pools,          \* per pool: "none", or how the pool object was made
    ptables,        \* per pool and pipeline id: the pipeline object of the entry
    pobjs,          \* per pipeline object: its parent pool, its id, its state
    \* -- the completion callback of the invoke / connect task
    completion,     \* per pipeline: the callback given, and when it was fired
    \* -- the dispatcher and events it cannot place
    dispatch_raised, \* the error the dispatcher raised on an event, or "none"
    subscribers     \* the runs of caller-defined callbacks so far, oldest first

wVars == <<waiter, set_returns>>
cVars == <<items, completed, fired, append_pc, append_val, complete_pc,
           complete_returns, added_idx, blocking_iterator, iters, add_lock, app_calls,
           complete_len, coll_error>>
poolVars == <<state, new_client, host, pipeline_table, result_handler, wait_result,
              ci_table, host_responses, ops, n_received, last_event, last_call,
              listener, pool_call, pool_raised, avail, peer_pool, peer_avail>>
pipeVars == <<phost, pstate, streams, explicit_output, output_target, out, task,
              sync_completed, close_pc, close_lock, peer, final_event>>
kVars == <<cipher, invoking, received>>
tVars == <<pools, ptables, pobjs>>
gVars == <<runspaces, setting, tVars>>
xVars == <<dispatch_raised, subscribers>>
dVars == <<completion, xVars>>
vars == <<facade, wVars, cVars, poolVars, pipeVars, kVars, gVars, dVars>>

\* ------------------------------------------------------------------------
\* MessageResult (_async.py 193-254)
\* ------------------------------------------------------------------------
\* The conditions the runtime constructs MessageResults with.
NoCondition == [kind |-> "none", ci |-> NoCi]
NotRunning == [kind |-> "not_running", ci |-> NoCi]     \* lambda e: e.state != Running
AnyPoolState == [kind |-> "none", ci |-> NoCi]          \* a wait that takes any state
NotOpened == [kind |-> "not_opened", ci |-> NoCi]       \* lambda e: e.state != Opened
CiEquals(ci) == [kind |-> "ci_eq", ci |-> ci]           \* lambda e: e.ci == ci

ConditionHolds(cond, e) ==
    CASE cond.kind = "none" -> TRUE
      [] cond.kind = "not_running" -> e.state # "Running"
      [] cond.kind = "not_opened" -> e.state # "Opened"
      [] cond.kind = "ci_eq" -> e.ci = cond.ci

\* The calls that wait on a MessageResult: the invoke / connect task of a
\* pipeline, open(), close(), exchange_key(), the three waits of connect(),
\* an availability operation, or a caller outside the runtime.
Waiter(who, n) == [who |-> who, n |-> n]
WaiterIds ==
    {Waiter("task", p) : p \in Pipes}
    \cup {Waiter(who, 0) : who \in {"open", "close", "key", "sess", "init", "data", "app"}}
    \cup {Waiter("avail", c) : c \in 1..MaxCi}

\* MessageResult.__init__; id names the call that holds the object.
MessageResult(id, event_type, condition) ==
    [id |-> id, event_type |-> event_type, condition |-> condition,
     result |-> NoEvent, event |-> FALSE]

\* What MessageResult.set(value) returns.
MessageResult_accepts(w, value) ==
    value.type = w.event_type /\ ConditionHolds(w.condition, value)

\* The MessageResult after set(value).
MessageResult_set(w, value) ==
    IF MessageResult_accepts(w, value)
    THEN [w EXCEPT !.result = value, !.event = TRUE]
    ELSE w

\* The MessageResult of a specification that does not drive it.
IdleWaiter ==
    /\ waiter = MessageResult(Waiter("app", 0), "-", NoCondition)
    /\ set_returns = <<>>

\* ------------------------------------------------------------------------
\* Data collections: AsyncPSDataCollection (_async.py 78-190) and
\* PSDataStream (_sync.py 44-80)
\* ------------------------------------------------------------------------
EOF == -1             \* PSDataStream._EOF, the queue entry finalize() puts
NotYet == -1          \* complete_len before any complete() / finalize()

NoFired == [data_adding |-> 0, data_added |-> 0, on_completed |-> 0]

\* The iterators over the collection.  pc is "none" before the first
\* __anext__ / __next__, "acquire" when the generator is at async with
\* self._add_condition, "yielded" when it is suspended at its yield (holding
\* the lock) or __next__ has returned an item, "waiting" in
\* _add_condition.wait(), "done" after StopAsyncIteration / StopIteration.
Iters == 1..NIters
NoIter == [pc |-> "none", idx |-> 0, yielded |-> <<>>]

\* The collection as constructed, but for blocking_iterator.
NewColl ==
    /\ items = <<>>
    /\ completed = FALSE
    /\ fired = NoFired
    /\ append_pc = "idle"
    /\ append_val = NoVal
    /\ complete_pc = "idle"
    /\ complete_returns = 0
    /\ added_idx = <<>>
    /\ iters = [i \in Iters |-> NoIter]
    /\ add_lock = 0
    /\ app_calls = 0
    /\ complete_len = NotYet
    /\ coll_error = "none"

\* The collection of a specification that does not drive it.
IdleColl == blocking_iterator = FALSE /\ NewColl

\* list.insert(index, value) for an index of 0..len.
InsertAt(s, index, value) ==
    SubSeq(s, 1, index) \o <<value>> \o SubSeq(s, index + 1, Len(s))

\* AsyncPSDataCollection.append(value) / insert(index, value), the
\* application side calls; append is the insert at the end.
insert(index, value) ==
    /\ facade = "async"
    /\ Len(items) < MaxItems
    /\ app_calls < MaxAppCalls
    /\ index \in 0..Len(items)
    /\ app_calls' = app_calls + 1
    /\ IF completed
       THEN /\ coll_error' = "ValueError"
            /\ UNCHANGED items
       ELSE /\ items' = InsertAt(items, index, value)
            /\ coll_error' = "none"
    /\ UNCHANGED <<completed, fired, append_pc, append_val, complete_pc,
                   complete_returns, added_idx, blocking_iterator, iters, add_lock,
                   complete_len>>
    /\ UNCHANGED <<facade, kVars, gVars, dVars, wVars, poolVars, pipeVars>>

append(value) == insert(Len(items), value)

\* An append or completion that wakes nobody.
notify_none(its) == its

\* notify_all() on _add_condition: the iterators in wait() go for the lock.
notify_all(its) ==
    [i \in Iters |-> IF its[i].pc = "waiting" THEN [its[i] EXCEPT !.pc = "acquire"]
                     ELSE its[i]]

\* AsyncPSDataCollection._append(value) up to the end of the data_adding
\* subscribers: a completed collection drops the value and fires nothing.
\* The subscribers are awaited, so other tasks may run before the insertion.
protocol_append(value) ==
    /\ facade = "async"
    /\ append_pc = "idle"
    /\ Len(items) < MaxItems
    /\ IF completed
       THEN UNCHANGED <<fired, append_pc, append_val>>
       ELSE /\ fired' = [fired EXCEPT !.data_adding = @ + 1]
            /\ append_pc' = "adding"
            /\ append_val' = value
    /\ UNCHANGED <<items, completed, complete_pc, complete_returns, added_idx,
                   blocking_iterator, iters, add_lock, app_calls, complete_len,
                   coll_error>>
    /\ UNCHANGED <<facade, kVars, gVars, dVars, wVars, poolVars, pipeVars>>

\* The rest of _append: under the condition, self.append(value), which raises
\* when the collection was completed meanwhile, and notify_all; then the
\* data_added subscribers.
protocol_append_insert ==
    /\ facade = "async"
    /\ append_pc = "adding"
    /\ add_lock = 0
    /\ IF completed
       THEN /\ coll_error' = "ValueError"
            /\ UNCHANGED <<items, fired, iters>>
       ELSE /\ items' = Append(items, append_val)
            /\ iters' = notify_all(iters)
            /\ fired' = [fired EXCEPT !.data_added = @ + 1]
            /\ UNCHANGED coll_error
    /\ append_pc' = "idle"
    /\ append_val' = NoVal
    /\ UNCHANGED <<completed, complete_pc, complete_returns, added_idx,
                   blocking_iterator, add_lock, app_calls, complete_len>>
    /\ UNCHANGED <<facade, kVars, gVars, dVars, wVars, poolVars, pipeVars>>

\* AsyncPSDataCollection.complete() up to the end of the on_completed
\* subscribers, which are awaited.
complete_begin ==
    /\ facade = "async"
    /\ complete_pc = "idle"
    /\ complete_returns < MaxCompletes
    /\ completed' = TRUE
    /\ complete_len' = IF complete_len = NotYet THEN Len(items) ELSE complete_len
    /\ fired' = [fired EXCEPT !.on_completed = @ + 1]
    /\ complete_pc' = "on_completed"
    /\ UNCHANGED <<items, append_pc, append_val, complete_returns, added_idx,
                   blocking_iterator, iters, add_lock, app_calls, coll_error>>
    /\ UNCHANGED <<facade, kVars, gVars, dVars, wVars, poolVars, pipeVars>>

\* The rest of complete(): notify_all under the condition, and the return.
complete_end ==
    /\ facade = "async"
    /\ complete_pc = "on_completed"
    /\ add_lock = 0
    /\ complete_pc' = "idle"
    /\ complete_returns' = complete_returns + 1
    /\ iters' = notify_all(iters)
    /\ UNCHANGED <<items, completed, fired, append_pc, append_val, added_idx,
                   blocking_iterator, add_lock, app_calls, complete_len, coll_error>>
    /\ UNCHANGED <<facade, kVars, gVars, dVars, wVars, poolVars, pipeVars>>

\* The consumer of iterator i asks for the next item (__anext__): the first
\* call starts the generator of _aiter_next; a later call resumes it after
\* its yield, where it leaves async with, releasing the lock, and loops.
aiter_resume(i) ==
    /\ facade = "async"
    /\ iters[i].pc \in {"none", "yielded"}
    /\ iters' = [iters EXCEPT ![i].pc = "acquire"]
    /\ add_lock' = IF add_lock = i THEN 0 ELSE add_lock
    /\ UNCHANGED <<items, completed, fired, append_pc, append_val, complete_pc,
                   complete_returns, added_idx, blocking_iterator, app_calls,
                   complete_len, coll_error>>
    /\ UNCHANGED <<facade, kVars, gVars, dVars, wVars, poolVars, pipeVars>>

\* One round of the loop of _aiter_next with the lock taken: the item at idx
\* is yielded inside async with, so the lock stays with the suspended
\* generator; caught up, the generator ends if the collection is completed
\* or not blocking, and otherwise waits on the condition.
aiter_next(i) ==
    /\ facade = "async"
    /\ iters[i].pc = "acquire"
    /\ add_lock = 0
    /\ IF iters[i].idx < Len(items)
       THEN /\ iters' = [iters EXCEPT ![i].pc = "yielded",
                                      ![i].idx = @ + 1,
                                      ![i].yielded = Append(@, items[iters[i].idx + 1])]
            /\ add_lock' = i
       ELSE /\ iters' = [iters EXCEPT ![i].pc = IF completed \/ ~blocking_iterator
                                                THEN "done" ELSE "waiting"]
            /\ UNCHANGED add_lock
    /\ UNCHANGED <<items, completed, fired, append_pc, append_val, complete_pc,
                   complete_returns, added_idx, blocking_iterator, app_calls,
                   complete_len, coll_error>>
    /\ UNCHANGED <<facade, kVars, gVars, dVars, wVars, poolVars, pipeVars>>

\* PSDataStream.append(value), by the reader thread or by the application.
PSDataStream_append(value, by) ==
    /\ facade = "sync"
    /\ Len(items) < MaxItems
    /\ by = "app" => app_calls < MaxAppCalls
    /\ app_calls' = IF by = "app" THEN app_calls + 1 ELSE app_calls
    /\ IF ~completed
       THEN /\ items' = Append(items, value)
            /\ added_idx' = Append(added_idx, Len(items))   \* len(self) - 1
       ELSE UNCHANGED <<items, added_idx>>
    /\ UNCHANGED <<completed, fired, append_pc, append_val, complete_pc,
                   complete_returns, blocking_iterator, iters, add_lock, complete_len,
                   coll_error>>
    /\ UNCHANGED <<facade, kVars, gVars, dVars, wVars, poolVars, pipeVars>>

\* PSDataStream.finalize().
PSDataStream_finalize ==
    /\ facade = "sync"
    /\ complete_returns < MaxCompletes
    /\ IF ~completed
       THEN added_idx' = Append(added_idx, EOF)
       ELSE UNCHANGED added_idx
    /\ complete_returns' = complete_returns + 1
    /\ complete_len' = IF complete_len = NotYet THEN Len(items) ELSE complete_len
    /\ UNCHANGED <<items, completed, fired, append_pc, append_val, complete_pc,
                   blocking_iterator, iters, add_lock, app_calls, coll_error>>
    /\ UNCHANGED <<facade, kVars, gVars, dVars, wVars, poolVars, pipeVars>>

\* PSDataStream.__next__() called by the consumer of iterator i, with the
\* wait() it calls: it blocks on the empty queue of a stream that is not
\* complete.  __iter__ returns the stream itself, so every iterator takes
\* from the one queue.
PSDataStream_next(i) ==
    /\ facade = "sync"
    /\ iters[i].pc # "done"
    /\ IF completed
       THEN /\ iters' = [iters EXCEPT ![i].pc = "done"]
            /\ UNCHANGED <<completed, added_idx>>
       ELSE /\ added_idx # <<>>
            /\ added_idx' = Tail(added_idx)
            /\ IF Head(added_idx) = EOF
               THEN /\ completed' = TRUE
                    /\ iters' = [iters EXCEPT ![i].pc = "done"]
               ELSE /\ iters' = [iters EXCEPT
                                   ![i].pc = "yielded",
                                   ![i].idx = Head(added_idx) + 1,
                                   ![i].yielded = Append(@, items[Head(added_idx) + 1])]
                    /\ UNCHANGED completed
    /\ UNCHANGED <<items, fired, append_pc, append_val, complete_pc, complete_returns,
                   blocking_iterator, add_lock, app_calls, complete_len, coll_error>>
    /\ UNCHANGED <<facade, kVars, gVars, dVars, wVars, poolVars, pipeVars>>

\* ------------------------------------------------------------------------
\* Host method lookup (_host.py 425-535)
\* ------------------------------------------------------------------------
\* A host as the lookup sees it: "none" is no host object, "host" a PSHost
\* whose ui is None, "ui" a PSHost with a PSHostUI whose raw_ui is None,
\* "raw_ui" a PSHost with a PSHostUI and a PSHostRawUI.
HostKinds == {"none", "host", "ui", "raw_ui"}

HostMethod(name, is_void, host_type) ==
    [name |-> name, is_void |-> is_void, host_type |-> host_type]

\* The members of HostMethodIdentifier the table has an entry for.
HostMethodIdentifiers ==
    {"GetName", "GetVersion", "GetInstanceId", "GetCurrentCulture",
     "GetCurrentUICulture", "SetShouldExit", "EnterNestedPrompt", "ExitNestedPrompt",
     "NotifyBeginApplication", "NotifyEndApplication", "PushRunspace", "PopRunspace",
     "GetIsRunspacePushed", "GetRunspace", "ReadLine", "ReadLineAsSecureString",
     "Write1", "Write2", "WriteLine1", "WriteLine2",
     "WriteLine3", "WriteErrorLine", "WriteDebugLine", "WriteProgress",
     "WriteVerboseLine", "WriteWarningLine", "Prompt", "PromptForCredential1",
     "PromptForCredential2", "PromptForChoice", "PromptForChoiceMultipleSelection", "GetForegroundColor",
     "SetForegroundColor", "GetBackgroundColor", "SetBackgroundColor", "GetCursorPosition",
     "SetCursorPosition", "GetWindowPosition", "SetWindowPosition", "GetCursorSize",
     "SetCursorSize", "GetBufferSize", "SetBufferSize", "GetWindowSize",
     "SetWindowSize", "GetWindowTitle", "SetWindowTitle", "GetMaxWindowSize",
     "GetMaxPhysicalWindowSize", "GetKeyAvailable", "ReadKey", "FlushInputBuffer",
     "SetBufferContents1", "SetBufferContents2", "GetBufferContents", "ScrollBufferContents"}

\* The methods class PSHost defines (_host.py 35-177).
PSHost_methods ==
    {"get_host_info", "get_name", "get_version", "get_instance_id",
     "get_current_culture", "get_current_ui_culture", "set_should_exit", "enter_nested_prompt",
     "exit_nested_prompt", "notify_begin_application", "notify_end_application", "push_runspace",
     "pop_runspace", "get_is_runspace_pushed", "get_runspace"}

\* The methods class PSHostUI defines (_host.py 180-299).
PSHostUI_methods ==
    {"read_line", "read_line_as_secure_string", "write1", "write2",
     "write_line1", "write_line2", "write_line3", "write_error_line",
     "write_debug_line", "write_progress", "write_verbose_line", "write_warning_line",
     "prompt", "prompt_for_credential", "prompt_for_credential2", "prompt_for_choice",
     "prompt_for_choice_multiple_selection"}

\* The methods class PSHostRawUI defines (_host.py 302-422).
PSHostRawUI_methods ==
    {"get_host_default_data", "get_foreground_color", "set_foreground_color", "get_background_color",
     "set_background_color", "get_cursor_position", "set_cursor_position", "get_window_position",
     "set_window_position", "get_cursor_size", "set_cursor_size", "get_buffer_size",
     "set_buffer_size", "get_window_size", "set_window_size", "get_window_title",
     "set_window_title", "get_max_window_size", "get_max_physical_window_size", "get_key_available",
     "read_key", "flush_input_buffer", "set_buffer_contents1", "set_buffer_contents2",
     "get_buffer_contents", "scroll_buffer_contents"}

\* The table of get_host_method: identifier -> (name, is_void, host_type).
host_method_table(mi) ==
    CASE mi = "GetName" -> HostMethod("get_name", FALSE, "host")
      [] mi = "GetVersion" -> HostMethod("get_version", FALSE, "host")
      [] mi = "GetInstanceId" -> HostMethod("get_instance_id", FALSE, "host")
      [] mi = "GetCurrentCulture" -> HostMethod("get_current_culture", FALSE, "host")
      [] mi = "GetCurrentUICulture" -> HostMethod("get_current_ui_culture", FALSE, "host")
      [] mi = "SetShouldExit" -> HostMethod("set_should_exit", TRUE, "host")
      [] mi = "EnterNestedPrompt" -> HostMethod("enter_nested_prompt", TRUE, "host")
      [] mi = "ExitNestedPrompt" -> HostMethod("exit_nested_prompt", TRUE, "host")
      [] mi = "NotifyBeginApplication" -> HostMethod("notify_begin_application", TRUE, "host")
      [] mi = "NotifyEndApplication" -> HostMethod("notify_end_application", TRUE, "host")
      [] mi = "PushRunspace" -> HostMethod("push_runspace", TRUE, "host")
      [] mi = "PopRunspace" -> HostMethod("pop_runspace", TRUE, "host")
      [] mi = "GetIsRunspacePushed" -> HostMethod("get_is_runspace_pushed", FALSE, "host")
      [] mi = "GetRunspace" -> HostMethod("get_runspace", FALSE, "host")
      [] mi = "ReadLine" -> HostMethod("read_line", FALSE, "ui")
      [] mi = "ReadLineAsSecureString" -> HostMethod("read_line_as_secure_string", FALSE, "ui")
      [] mi = "Write1" -> HostMethod("write1", TRUE, "ui")
      [] mi = "Write2" -> HostMethod("write2", TRUE, "ui")
      [] mi = "WriteLine1" -> HostMethod("write_line1", TRUE, "ui")
      [] mi = "WriteLine2" -> HostMethod("write_line2", TRUE, "ui")
      [] mi = "WriteLine3" -> HostMethod("write_line3", TRUE, "ui")
      [] mi = "WriteErrorLine" -> HostMethod("write_error_line", TRUE, "ui")
      [] mi = "WriteDebugLine" -> HostMethod("write_debug_line", TRUE, "ui")
      [] mi = "WriteProgress" -> HostMethod("write_progress", TRUE, "ui")
      [] mi = "WriteVerboseLine" -> HostMethod("write_verbose_line", TRUE, "ui")
      [] mi = "WriteWarningLine" -> HostMethod("write_warning_line", TRUE, "ui")
      [] mi = "Prompt" -> HostMethod("prompt", FALSE, "ui")
      [] mi = "PromptForCredential1" -> HostMethod("prompt_for_credential1", FALSE, "ui")
      [] mi = "PromptForCredential2" -> HostMethod("prompt_for_credential2", FALSE, "ui")
      [] mi = "PromptForChoice" -> HostMethod("prompt_for_choice", FALSE, "ui")
      [] mi = "PromptForChoiceMultipleSelection" -> HostMethod("prompt_for_choice_multiple_selection", FALSE, "ui")
      [] mi = "GetForegroundColor" -> HostMethod("get_foreground_color", FALSE, "raw_ui")
      [] mi = "SetForegroundColor" -> HostMethod("set_foreground_color", TRUE, "raw_ui")
      [] mi = "GetBackgroundColor" -> HostMethod("get_background_color", FALSE, "raw_ui")
      [] mi = "SetBackgroundColor" -> HostMethod("set_background_color", TRUE, "raw_ui")
      [] mi = "GetCursorPosition" -> HostMethod("get_cursor_position", FALSE, "raw_ui")
      [] mi = "SetCursorPosition" -> HostMethod("set_cursor_position", TRUE, "raw_ui")
      [] mi = "GetWindowPosition" -> HostMethod("get_window_position", FALSE, "raw_ui")
      [] mi = "SetWindowPosition" -> HostMethod("set_window_position", TRUE, "raw_ui")
      [] mi = "GetCursorSize" -> HostMethod("get_cursor_size", FALSE, "raw_ui")
      [] mi = "SetCursorSize" -> HostMethod("set_cursor_size", TRUE, "raw_ui")
      [] mi = "GetBufferSize" -> HostMethod("get_buffer_size", FALSE, "raw_ui")
      [] mi = "SetBufferSize" -> HostMethod("set_buffer_size", TRUE, "raw_ui")
      [] mi = "GetWindowSize" -> HostMethod("get_window_size", FALSE, "raw_ui")
      [] mi = "SetWindowSize" -> HostMethod("set_window_size", TRUE, "raw_ui")
      [] mi = "GetWindowTitle" -> HostMethod("get_window_title", FALSE, "raw_ui")
      [] mi = "SetWindowTitle" -> HostMethod("set_window_title", TRUE, "raw_ui")
      [] mi = "GetMaxWindowSize" -> HostMethod("get_max_window_size", FALSE, "raw_ui")
      [] mi = "GetMaxPhysicalWindowSize" -> HostMethod("get_max_physical_window_size", FALSE, "raw_ui")
      [] mi = "GetKeyAvailable" -> HostMethod("get_key_available", FALSE, "raw_ui")
      [] mi = "ReadKey" -> HostMethod("read_key", FALSE, "raw_ui")
      [] mi = "FlushInputBuffer" -> HostMethod("flush_input_buffer", TRUE, "raw_ui")
      [] mi = "SetBufferContents1" -> HostMethod("set_buffer_contents1", TRUE, "raw_ui")
      [] mi = "SetBufferContents2" -> HostMethod("set_buffer_contents2", TRUE, "raw_ui")
      [] mi = "GetBufferContents" -> HostMethod("get_buffer_contents", FALSE, "raw_ui")
      [] mi = "ScrollBufferContents" -> HostMethod("scroll_buffer_contents", TRUE, "raw_ui")

\* getattr(target, name, None) is not None, for the object the lookup walks
\* to: the host itself, its ui, or the raw_ui of its ui.
HasMethod(h, m) ==
    CASE m.host_type = "host" -> h # "none" /\ m.name \in PSHost_methods
      [] m.host_type = "ui" -> h \in {"ui", "raw_ui"} /\ m.name \in PSHostUI_methods
      [] m.host_type = "raw_ui" -> h = "raw_ui" /\ m.name \in PSHostRawUI_methods

\* get_host_method(host, method_identifier, method_parameters): the
\* MethodMetadata, with invoke TRUE for a callable and FALSE for None.
get_host_method(h, mi) ==
    LET m == host_method_table(mi)
    IN [is_void |-> m.is_void, invoke |-> HasMethod(h, m)]

\* ------------------------------------------------------------------------
\* The pool and its pipelines as constructed
\* ------------------------------------------------------------------------
\* The callers of AsyncPipeline.close / Pipeline.close: the invoke / connect
\* task (the reader thread's _on_state in the thread-based facade), the
\* application, and the pool's close().
Closers == {"task", "app", "pool"}

\* The stream objects the output of a pipeline can go to: the one the
\* pipeline made itself, the one the caller of invoke / connect supplied, the
\* one Pipeline.stop_async made; "none" is _output_stream = None.
StreamObjects == {"own", "caller", "stop"}

NoTaskResult == [kind |-> "none", items |-> <<>>, msg |-> ""]
\* supplied: the caller gave an output stream; own: the PipelineTask holds a
\* stream of its own (thread-based facade); stop: where the stop() call on
\* the pipeline stands ("none", "signal", "waiting", "done").
NoTask ==
    [pc |-> "none", supplied |-> FALSE, own |-> FALSE, result |-> NoTaskResult,
     stop |-> "none"]
NoPoolCall == [op |-> "none", pc |-> "-", todo |-> <<>>]
NoAvail == [pc |-> "idle", kind |-> "-", result |-> NoVal]
NoAnswer == [sent |-> FALSE, val |-> NoVal]
\* No invoke_async call with input: secure is whether the command holds a
\* secure string, items whether each input item does, next the item the
\* loop is at, sent the items handed to the codec, at the operation that
\* raised MissingCipher, missed / retries how often it was raised / retried.
\* No pipeline object: its parent pool and its pipeline id are NoPool / NoPid.
NoPool == 0
NoObj == 0
NoPipeline == [pool |-> NoPool, id |-> NoPid, state |-> "-"]

\* The constructor call of the pool: not made yet, or made with the counts
\* arg_min / arg_max; pc is then "constructed" or "raised", registered
\* whether the callback of the pool is registered with the transport.
NotConstructed ==
    [pc |-> "none", arg_min |-> 0, arg_max |-> 0, min |-> 0, max |-> 0,
     registered |-> FALSE]
NoSetting == [which |-> "-", value |-> 0]

\* The fields of a pool object and of what surrounds it, before the pool is
\* opened.
PoolFields ==
    /\ state = "BeforeOpen"
    /\ new_client = FALSE
    /\ pipeline_table = {}
    /\ result_handler = [o \in Owners |-> <<>>]
    /\ wait_result = [id \in WaiterIds |-> NoEvent]
    /\ ci_table = [c \in 1..MaxCi |-> NoEvent]
    /\ host_responses = <<>>
    /\ ops = [o \in Owners |-> <<>>]
    /\ n_received = 0
    /\ last_event = NoEvent
    /\ last_call = "none"
    /\ listener = "none"
    /\ pool_call = NoPoolCall
    /\ pool_raised = "none"
    /\ avail = [c \in 1..MaxCi |-> NoAvail]
    /\ peer_pool = <<>>
    /\ peer_avail = [c \in 1..MaxCi |-> NoAnswer]
    /\ cipher = FALSE
    /\ received = <<>>
    /\ dispatch_raised = "none"
    /\ subscribers = <<>>
    /\ setting = [c \in 1..MaxCi |-> NoSetting]
    /\ pools = [k \in 1..NPools |-> "none"]
    /\ ptables = [k \in 1..NPools |-> [id \in PipelineIds |-> NoObj]]
    /\ pobjs = [o \in 1..MaxObjs |-> NoPipeline]

NoInvoke ==
    [pc |-> "none", secure |-> FALSE, has_input |-> FALSE, items |-> <<>>, next |-> 1,
     sent |-> <<>>, at |-> "-", missed |-> 0, retries |-> 0]

\* AsyncRunspacePool.__init__ (_async.py 360-403) / RunspacePool.__init__
\* (_sync.py 99-129) with the default counts, but for the host.
NewPool ==
    /\ runspaces = [pc |-> "constructed", arg_min |-> 1, arg_max |-> 1, min |-> 1,
                    max |-> 1, registered |-> facade = "async"]
    /\ PoolFields

\* No completion callback: given is whether invoke_async / connect_async was
\* passed one (a coroutine function, or an Event in the thread-based
\* facade), fired whether it was called / set, in_table and after_close
\* whether the pipeline was in the pool's table and whether the close() of
\* the task had returned when it was.
NoCompletion ==
    [given |-> FALSE, fired |-> FALSE, in_table |-> FALSE, after_close |-> FALSE]

\* AsyncPipeline.__init__ (_async.py 741-760) / Pipeline.__init__
\* (_sync.py 359-392), but for the host.
NewPipes ==
    /\ pstate = [p \in Pipes |-> "NotStarted"]
    /\ streams = [o \in Owners |-> [name \in StreamNames |-> <<>>]]
    /\ explicit_output = [p \in Pipes |-> FALSE]
    /\ output_target = [p \in Pipes |-> IF facade = "async" THEN "own" ELSE "none"]
    /\ out = [p \in Pipes |-> [s \in StreamObjects |-> <<>>]]
    /\ task = [p \in Pipes |-> NoTask]
    /\ sync_completed = [p \in Pipes |-> [invoke |-> FALSE, stop |-> FALSE]]
    /\ close_pc = [p \in Pipes |-> [c \in Closers |-> "idle"]]
    /\ close_lock = [p \in Pipes |-> "free"]
    /\ peer = [p \in Pipes |-> "idle"]
    /\ final_event = [p \in Pipes |-> NoEvent]
    /\ invoking = [p \in Pipes |-> NoInvoke]
    /\ completion = [p \in Pipes |-> NoCompletion]

\* The pool and the pipelines of a specification that does not drive them.
IdlePool == host = "none" /\ NewPool
IdlePipes == phost = [p \in Pipes |-> "none"] /\ NewPipes

\* ------------------------------------------------------------------------
\* The event dispatcher
\* ------------------------------------------------------------------------
\* The transport operations after operation op for owner o (the pool when o
\* is NoPid, else the pipeline) has been issued.
Issue(o, op) == [ops EXCEPT ![o] = Append(@, op)]

HostCallTypes == {"RunspacePoolHostCall", "PipelineHostCall"}

\* getattr(self, "host", None) or self.runspace_pool.host
EffectiveHost(p) == IF phost[p] # "none" THEN phost[p] ELSE host

\* The stream a record event type is appended to by the task-based facade.
StreamOf(type) == CHOOSE name \in StreamNames : RecordType(name) = type

\* for handler in list(self._result_handler): if handler.set(event): remove.
\* What stays in the list, and the calls whose MessageResult took the event.
Offered(handlers, e) == SelectSeq(handlers, LAMBDA w : ~MessageResult_accepts(w, e))
Accepting(handlers, e) ==
    {handlers[i].id : i \in {j \in DOMAIN handlers : MessageResult_accepts(handlers[j], e)}}

\* What the host method does once the lookup has been made: "no_host" when
\* the dispatcher does not call at all, "absent" for invoke = None,
\* otherwise what the method itself does.
CallOutcome(called, md, raises) ==
    IF ~called THEN "no_host"
    ELSE IF ~md.invoke THEN "absent"
    ELSE IF raises THEN "raised" ELSE "returned"

\* AsyncRunspacePool._invoke_host_call: the record appended to the error
\* stream of owner o, as the streams after the call.
invoke_host_call_streams(o, md, outcome) ==
    IF outcome \in {"absent", "raised"} /\ md.is_void
    THEN [streams EXCEPT ![o]["error"] = Append(@, HostErrorRecord)]
    ELSE streams

\* AsyncRunspacePool._invoke_host_call: the host responses after the call.
invoke_host_call_responses(ci, md, outcome) ==
    IF outcome \in {"absent", "raised", "returned"} /\ ~md.is_void
    THEN Append(host_responses, [ci |-> ci, error |-> outcome # "returned"])
    ELSE host_responses

\* The codec decodes the event before the runtime sees it: a state event
\* has already changed pool.state / pipeline.state.
CodecPoolState(e) == IF e.type = "RunspacePoolState" THEN e.state ELSE state
CodecPipeState(e) ==
    IF e.type = "PipelineState"
    THEN [pstate EXCEPT ![e.pipeline_id] = e.state]
    ELSE pstate

\* AsyncRunspacePool._event_received with AsyncPipeline._event_received: one
\* event handled by the task-based dispatcher.  raises is what the host
\* method does if the event is a host call and the method is called.
event_received(e, raises) ==
    LET o == e.pipeline_id
        h == IF o = NoPid THEN host ELSE EffectiveHost(o)
        is_call == e.type = (IF o = NoPid THEN "RunspacePoolHostCall" ELSE "PipelineHostCall")
        md == get_host_method(h, e.text)
        outcome == CallOutcome(h # "none", md, raises)
    IN
    /\ facade = "async"
    /\ o # NoPid => o \in pipeline_table
    /\ state' = CodecPoolState(e)
    /\ pstate' = CodecPipeState(e)
    /\ IF is_call
       THEN /\ last_call' = outcome
            /\ streams' = invoke_host_call_streams(o, md, outcome)
            /\ host_responses' = invoke_host_call_responses(e.ci, md, outcome)
            /\ UNCHANGED out
       ELSE /\ last_call' = "none"
            /\ UNCHANGED host_responses
            /\ IF e.type \in RecordTypes
               THEN /\ streams' = [streams EXCEPT ![o][StreamOf(e.type)] = Append(@, e.val)]
                    /\ UNCHANGED out
               ELSE /\ UNCHANGED streams
                    /\ IF e.type = "PipelineOutput" /\ o # NoPid
                       THEN out' = [out EXCEPT ![o][output_target[o]] = Append(@, e.val)]
                       ELSE UNCHANGED out
    /\ result_handler' = [result_handler EXCEPT ![o] = Offered(@, e)]
    /\ wait_result' = [id \in WaiterIds |->
                         IF id \in Accepting(result_handler[o], e) THEN e
                         ELSE wait_result[id]]
    /\ UNCHANGED <<new_client, host, pipeline_table, ci_table, ops, listener,
                   pool_call, pool_raised, avail>>
    /\ UNCHANGED <<phost, explicit_output, output_target, task, sync_completed,
                   close_pc, close_lock>>
    /\ UNCHANGED <<facade, wVars, cVars>>

\* event.message_type: the two availability events share a message type.
MessageType(type) ==
    IF type \in {"GetRunspaceAvailability", "SetRunspaceAvailability"}
    THEN "RunspaceAvailability"
    ELSE type

\* reg.notify_all() on the Condition of the event's message type: the
\* waiting calls it reaches.  A call waiting on a Condition is held in
\* result_handler of the pool, its event_type the message type.
Notified(handlers, e) ==
    {handlers[i].id : i \in {j \in DOMAIN handlers :
                                handlers[j].event_type = MessageType(e.type)}}

\* A close() that does not wait for the lock.
NeverHeld(p) == TRUE

\* async with self._close_lock / with self._close_lock: the lock can be taken.
LockFree(p) == close_lock[p] = "free"

\* RunspacePool._get_event_registrations: the bookkeeping of call ids.
get_event_registrations_ci(e) ==
    IF e.type \in HostCallTypes \cup {"GetRunspaceAvailability", "SetRunspaceAvailability"}
    THEN [ci_table EXCEPT ![e.ci] = e]
    ELSE ci_table

\* Pipeline.close as the reader thread runs it inside _on_state, the lock
\* being free: the transport close and the removal, when the pipeline is in
\* the table and not Disconnected.  st is the pipeline state the codec holds.
on_state_closes(p, st) == p \in pipeline_table /\ st[p] # "Disconnected"

\* RunspacePool._response_listener: one event handled by the reader thread,
\* with the callbacks Pipeline.__init__ registers (_on_state, _on_host_call,
\* the output and record lambdas).  Pool level events only notify the
\* condition of their message type.
response_listener(e, raises) ==
    LET p == e.pipeline_id
        md == get_host_method(EffectiveHost(p), e.text)
        outcome == CallOutcome(TRUE, md, raises)
        void_failed == outcome \in {"absent", "raised"} /\ md.is_void
    IN
    /\ facade = "sync"
    /\ listener = "running"
    /\ p # NoPid => p \in pipeline_table
    /\ (p # NoPid /\ e.type = "PipelineState") => LockFree(p)
    /\ state' = CodecPoolState(e)
    /\ pstate' = CodecPipeState(e)
    /\ ci_table' = get_event_registrations_ci(e)
    /\ wait_result' = [id \in WaiterIds |->
                         IF p = NoPid /\ id \in Notified(result_handler[NoPid], e) THEN e
                         ELSE wait_result[id]]
    /\ IF p = NoPid
       THEN /\ last_call' = "none"
            /\ UNCHANGED <<pipeline_table, host_responses, ops, listener>>
            /\ UNCHANGED <<streams, output_target, out, task, sync_completed, close_pc>>
       ELSE CASE e.type = "PipelineState" ->
                 \* _on_state: close(), then finalize the streams, drop the
                 \* output stream and set the Events; a missing output
                 \* stream or Event raises and ends the callback there.
                 /\ last_call' = "none"
                 /\ IF on_state_closes(p, pstate')
                    THEN /\ ops' = Issue(p, "close")
                         /\ pipeline_table' = pipeline_table \ {p}
                    ELSE UNCHANGED <<ops, pipeline_table>>
                 /\ close_pc' = [close_pc EXCEPT ![p]["task"] = "returned"]
                 /\ output_target' = [output_target EXCEPT ![p] = "none"]
                 /\ IF output_target[p] # "none" /\ sync_completed[p].invoke
                    THEN /\ task' = [task EXCEPT ![p].pc = "set"]
                         /\ sync_completed' = [sync_completed EXCEPT
                                                 ![p] = [invoke |-> FALSE, stop |-> FALSE]]
                    ELSE UNCHANGED <<task, sync_completed>>
                 /\ UNCHANGED <<host_responses, listener, streams, out>>
              [] e.type = "PipelineHostCall" ->
                 \* _on_host_call; a failed void method is recorded on the
                 \* error stream and followed by self.stop(): _new_task for
                 \* the stop, the signal, and the wait for the stop Event.
                 /\ last_call' = outcome
                 /\ streams' = invoke_host_call_streams(p, md, outcome)
                 /\ host_responses' = invoke_host_call_responses(e.ci, md, outcome)
                 /\ IF void_failed
                    THEN /\ output_target' = [output_target EXCEPT ![p] = "stop"]
                         /\ out' = [out EXCEPT ![p]["stop"] = <<>>]
                         /\ sync_completed' = [sync_completed EXCEPT ![p].stop = TRUE]
                         /\ ops' = Issue(p, "signal")
                         /\ listener' = "blocked"
                    ELSE /\ ops' = IF md.is_void THEN ops
                                   ELSE Issue(NoPid, "send_all")
                         /\ UNCHANGED <<output_target, out, sync_completed, listener>>
                 /\ UNCHANGED <<pipeline_table, task, close_pc>>
              [] e.type = "PipelineOutput" ->
                 \* lambda e: self._output_stream.append(e.data)
                 /\ last_call' = "none"
                 /\ IF output_target[p] # "none"
                    THEN out' = [out EXCEPT ![p][output_target[p]] = Append(@, e.val)]
                    ELSE UNCHANGED out
                 /\ UNCHANGED <<pipeline_table, host_responses, ops, listener>>
                 /\ UNCHANGED <<streams, output_target, task, sync_completed, close_pc>>
              [] e.type \in RecordTypes ->
                 \* lambda e: stream.append(e.record), where stream is the
                 \* variable of the loop that made the six streams: it is
                 \* the last one made, "warning", for every record type.
                 /\ last_call' = "none"
                 /\ streams' = [streams EXCEPT ![p]["warning"] = Append(@, e.val)]
                 /\ UNCHANGED <<pipeline_table, host_responses, ops, listener>>
                 /\ UNCHANGED <<output_target, out, task, sync_completed, close_pc>>
              [] OTHER ->
                 /\ last_call' = "none"
                 /\ UNCHANGED <<pipeline_table, host_responses, ops, listener>>
                 /\ UNCHANGED <<streams, output_target, out, task, sync_completed, close_pc>>
    /\ UNCHANGED <<new_client, host, result_handler, pool_call, pool_raised, avail>>
    /\ UNCHANGED <<phost, explicit_output, close_lock>>
    /\ UNCHANGED <<facade, wVars, cVars>>

\* ------------------------------------------------------------------------
\* AsyncPipeline.close / Pipeline.close
\* ------------------------------------------------------------------------
\* Ascending sequence of the members of a set of pipeline ids.
RECURSIVE SeqOf(_)
SeqOf(S) ==
    IF S = {} THEN <<>>
    ELSE LET m == CHOOSE x \in S : \A y \in S : x <= y
         IN <<m>> \o SeqOf(S \ {m})

\* The caller c is at a close() call on pipeline p: the application at any
\* time after it invoked the pipeline, the invoke / connect task once it has the terminal state, the
\* pool's close() for the next pipeline of its snapshot of the table.
AtCloseCall(p, c) ==
    CASE c = "app" -> task[p].pc # "none" /\ close_pc[p][c] = "idle"
      [] c = "task" -> facade = "async" /\ task[p].pc = "closing" /\ close_pc[p][c] = "idle"
      [] c = "pool" -> /\ pool_call.op = "close" /\ pool_call.pc = "pipelines"
                       /\ pool_call.todo # <<>> /\ Head(pool_call.todo) = p
                       /\ close_pc[p][c] = "idle"

\* The task and the pool call after close() on p has returned to caller c.
TaskAfterClose(p, c) ==
    IF c = "task" THEN [task EXCEPT ![p].pc = "closed"] ELSE task
PoolCallAfterClose(c) ==
    IF c = "pool" THEN [pool_call EXCEPT !.todo = Tail(@)] ELSE pool_call

\* close() up to its first suspension: the lock is taken; when the pipeline
\* is not in the table, or is Disconnected, the call returns; otherwise the
\* transport close is issued and the call waits for it, holding the lock.
close_enter(p, c) ==
    /\ AtCloseCall(p, c)
    /\ LockFree(p)
    /\ IF p \notin pipeline_table \/ pstate[p] = "Disconnected"
       THEN /\ close_pc' = [close_pc EXCEPT ![p][c] = "returned"]
            /\ task' = TaskAfterClose(p, c)
            /\ pool_call' = PoolCallAfterClose(c)
            /\ UNCHANGED <<ops, close_lock, peer>>
       ELSE /\ close_pc' = [close_pc EXCEPT ![p][c] = "closing"]
            /\ ops' = Issue(p, "close")
            /\ close_lock' = [close_lock EXCEPT ![p] = c]
            /\ peer' = [peer EXCEPT ![p] = "closed"]
            /\ UNCHANGED <<task, pool_call>>
    /\ UNCHANGED <<state, new_client, host, pipeline_table, result_handler, wait_result,
                   ci_table, host_responses, n_received, last_event, last_call,
                   listener, pool_raised, avail, peer_pool, peer_avail>>
    /\ UNCHANGED <<phost, pstate, streams, explicit_output, output_target, out,
                   sync_completed, final_event>>
    /\ UNCHANGED <<facade, kVars, gVars, dVars, wVars, cVars>>

\* close() after the transport close: the table entry is deleted, the lock
\* released, the call returns.
close_finish(p, c) ==
    /\ close_pc[p][c] = "closing"
    /\ pipeline_table' = pipeline_table \ {p}
    /\ close_lock' = [close_lock EXCEPT ![p] = "free"]
    /\ close_pc' = [close_pc EXCEPT ![p][c] = "returned"]
    /\ task' = TaskAfterClose(p, c)
    /\ pool_call' = PoolCallAfterClose(c)
    /\ UNCHANGED <<state, new_client, host, result_handler, wait_result, ci_table,
                   host_responses, ops, n_received, last_event, last_call, listener,
                   pool_raised, avail, peer_pool, peer_avail>>
    /\ UNCHANGED <<phost, pstate, streams, explicit_output, output_target, out,
                   sync_completed, peer, final_event>>
    /\ UNCHANGED <<facade, kVars, gVars, dVars, wVars, cVars>>

\* ------------------------------------------------------------------------
\* invoke_async and the task it returns
\* ------------------------------------------------------------------------
\* The pool is open and the application is in no open / close / disconnect /
\* connect call on it.
PoolReady ==
    /\ state = "Opened"
    /\ pool_call.op \in {"open", "connect"}
    /\ pool_call.pc = "returned"

\* What the caller of invoke_async passes as output_stream: nothing, a
\* stream that is empty at the time of the call, or one that holds an item.
Supplies == {"none", "empty", "filled"}

SuppliedStream(supplied) == IF supplied = "filled" THEN <<1>> ELSE <<>>

\* AsyncPipeline.invoke_async without input data, with _pipelines_task up to
\* its wait for the state event.
async_invoke_async(p, supplied) ==
    /\ facade = "async"
    /\ PoolReady
    /\ pstate[p] = "NotStarted"
    /\ task[p].pc = "none"
    /\ explicit_output' = [explicit_output EXCEPT ![p] = @ \/ supplied # "none"]
    /\ output_target' = [output_target EXCEPT
                           ![p] = IF supplied # "none" THEN "caller" ELSE "own"]
    /\ out' = [out EXCEPT ![p]["own"] = IF supplied = "none" THEN <<>> ELSE @,
                          ![p]["caller"] = SuppliedStream(supplied)]
    /\ result_handler' = [result_handler EXCEPT
                            ![p] = Append(@, MessageResult(Waiter("task", p),
                                                           "PipelineState", NotRunning))]
    /\ task' = [task EXCEPT ![p] = [pc |-> "waiting", supplied |-> supplied # "none",
                                    own |-> FALSE, result |-> NoTaskResult,
                                    stop |-> "none"]]
    /\ pstate' = [pstate EXCEPT ![p] = "Running"]
    /\ pipeline_table' = pipeline_table \cup {p}
    /\ ops' = [ops EXCEPT ![p] = Append(@, "command"), ![NoPid] = Append(@, "send_all")]
    /\ peer' = [peer EXCEPT ![p] = "running"]
    /\ UNCHANGED <<state, new_client, host, wait_result, ci_table, host_responses,
                   n_received, last_event, last_call, listener, pool_call, pool_raised,
                   avail, peer_pool, peer_avail>>
    /\ UNCHANGED <<phost, streams, sync_completed, close_pc, close_lock, final_event>>
    /\ UNCHANGED <<facade, kVars, gVars, xVars, wVars, cVars>>

\* Pipeline._new_task: "if not output_stream" is the truth value of a list,
\* so a supplied stream that is empty is replaced like a missing one.
new_task_uses_supplied(supplied) == supplied = "filled"

\* Pipeline.invoke_async without input data, with _new_task.
sync_invoke_async(p, supplied) ==
    /\ facade = "sync"
    /\ PoolReady
    /\ pstate[p] = "NotStarted"
    /\ task[p].pc = "none"
    /\ output_target' = [output_target EXCEPT
                           ![p] = IF new_task_uses_supplied(supplied) THEN "caller" ELSE "own"]
    /\ out' = [out EXCEPT ![p]["own"] = IF new_task_uses_supplied(supplied) THEN @ ELSE <<>>,
                          ![p]["caller"] = SuppliedStream(supplied)]
    /\ sync_completed' = [sync_completed EXCEPT ![p].invoke = TRUE]
    /\ task' = [task EXCEPT ![p] = [pc |-> "waiting", supplied |-> supplied # "none",
                                    own |-> ~new_task_uses_supplied(supplied),
                                    result |-> NoTaskResult, stop |-> "none"]]
    /\ pstate' = [pstate EXCEPT ![p] = "Running"]
    /\ pipeline_table' = pipeline_table \cup {p}
    /\ ops' = [ops EXCEPT ![p] = Append(@, "command"), ![NoPid] = Append(@, "send_all")]
    /\ peer' = [peer EXCEPT ![p] = "running"]
    /\ UNCHANGED <<state, new_client, host, result_handler, wait_result, ci_table,
                   host_responses, n_received, last_event, last_call, listener,
                   pool_call, pool_raised, avail, peer_pool, peer_avail>>
    /\ UNCHANGED <<phost, streams, explicit_output, close_pc, close_lock, final_event>>
    /\ UNCHANGED <<facade, kVars, gVars, xVars, wVars, cVars>>

\* invoke_async without a completed argument.
invoke_async(p, supplied) ==
    /\ \/ async_invoke_async(p, supplied)
       \/ sync_invoke_async(p, supplied)
    /\ UNCHANGED completion

\* invoke_async(completed=...): the callback the task is to fire.
invoke_async_completed(p, supplied) ==
    /\ \/ async_invoke_async(p, supplied)
       \/ sync_invoke_async(p, supplied)
    /\ completion' = [completion EXCEPT ![p] = [NoCompletion EXCEPT !.given = TRUE]]

\* The completion callback of pipeline p is fired: what is recorded of it.
fire_completed(p, table, closes) ==
    [completion EXCEPT ![p] = [given |-> TRUE, fired |-> TRUE, in_table |-> p \in table,
                               after_close |-> closes[p]["task"] = "returned"]]

\* _pipelines_task resumes with the state event its MessageResult captured,
\* calls the completed callback if it was given one, and goes on to
\* self.close().
pipelines_task_wake(p) ==
    /\ facade = "async"
    /\ task[p].pc = "waiting"
    /\ wait_result[Waiter("task", p)] # NoEvent
    /\ task' = [task EXCEPT ![p].pc = "closing"]
    /\ completion' = IF completion[p].given
                     THEN fire_completed(p, pipeline_table, close_pc)
                     ELSE completion
    /\ UNCHANGED <<facade, kVars, gVars, xVars, wVars, cVars, poolVars>>
    /\ UNCHANGED <<phost, pstate, streams, explicit_output, output_target, out,
                   sync_completed, close_pc, close_lock, peer, final_event>>

\* What _pipelines_task ends with for the state event st: the exception it
\* raises or the list it returns.
pipelines_task_result(p, st) ==
    CASE st.state = "Failed" ->
         [kind |-> "PipelineFailed", items |-> <<>>,
          msg |-> IF st.text # "" THEN st.text ELSE "Unknown failure."]
      [] st.state = "Stopped" ->
         [kind |-> "PipelineStopped", items |-> <<>>,
          msg |-> IF st.text # "" THEN st.text ELSE "The pipeline has been stopped."]
      [] OTHER ->
         [kind |-> "list", msg |-> "",
          items |-> IF explicit_output[p] THEN <<>> ELSE out[p][output_target[p]]]

\* _pipelines_task after self.close() has returned.
pipelines_task_finish(p) ==
    /\ facade = "async"
    /\ task[p].pc = "closed"
    /\ task' = [task EXCEPT ![p].pc = "done",
                            ![p].result = pipelines_task_result(p, wait_result[Waiter("task", p)])]
    /\ UNCHANGED <<facade, kVars, gVars, dVars, wVars, cVars, poolVars>>
    /\ UNCHANGED <<phost, pstate, streams, explicit_output, output_target, out,
                   sync_completed, close_pc, close_lock, peer, final_event>>

\* PipelineTask.wait: the Event has been set; the task's own stream, or None.
PipelineTask_wait(p) ==
    /\ facade = "sync"
    /\ task[p].pc = "set"
    /\ task' = [task EXCEPT ![p].pc = "done",
                            ![p].result = IF task[p].own
                                          THEN [kind |-> "list", items |-> out[p]["own"],
                                                msg |-> ""]
                                          ELSE [kind |-> "None", items |-> <<>>, msg |-> ""]]
    /\ UNCHANGED <<facade, kVars, gVars, dVars, wVars, cVars, poolVars>>
    /\ UNCHANGED <<phost, pstate, streams, explicit_output, output_target, out,
                   sync_completed, close_pc, close_lock, peer, final_event>>

\* AsyncPipeline.had_errors / Pipeline.had_errors.
had_errors(p) ==
    IF facade = "async" THEN Len(streams[p]["error"]) > 0
    ELSE pstate[p] = "Failed"

\* invoke_async on a pipeline whose earlier invocation has ended and whose
\* task has returned: the same assignments as the first call, made on the
\* fields the earlier call left behind.  _explicit_output is only ever set
\* (_async.py 917-921); each call has a new task with a new MessageResult /
\* a new Event, and _new_task picks the stream anew.
invoke_again(p, supplied) ==
    /\ PoolReady
    /\ task[p].pc = "done"
    /\ pstate[p] = "Completed"
    /\ p \notin pipeline_table
    /\ Len(SelectSeq(ops[p], LAMBDA op : op = "command")) < MaxInvocations
    /\ IF facade = "async"
       THEN /\ explicit_output' = [explicit_output EXCEPT ![p] = @ \/ supplied # "none"]
            /\ output_target' = [output_target EXCEPT
                                   ![p] = IF supplied # "none" THEN "caller" ELSE "own"]
            /\ out' = [out EXCEPT ![p]["own"] = IF supplied = "none" THEN <<>> ELSE @,
                                  ![p]["caller"] = SuppliedStream(supplied)]
            /\ result_handler' = [result_handler EXCEPT
                                    ![p] = Append(@, MessageResult(Waiter("task", p),
                                                                   "PipelineState", NotRunning))]
            /\ wait_result' = [wait_result EXCEPT ![Waiter("task", p)] = NoEvent]
            /\ task' = [task EXCEPT ![p] = [NoTask EXCEPT !.pc = "waiting",
                                                          !.supplied = supplied # "none"]]
            /\ UNCHANGED sync_completed
       ELSE /\ output_target' = [output_target EXCEPT
                                   ![p] = IF new_task_uses_supplied(supplied)
                                          THEN "caller" ELSE "own"]
            /\ out' = [out EXCEPT
                         ![p]["own"] = IF new_task_uses_supplied(supplied) THEN @ ELSE <<>>,
                         ![p]["caller"] = SuppliedStream(supplied)]
            /\ sync_completed' = [sync_completed EXCEPT ![p].invoke = TRUE]
            /\ task' = [task EXCEPT ![p] = [NoTask EXCEPT
                                              !.pc = "waiting",
                                              !.supplied = supplied # "none",
                                              !.own = ~new_task_uses_supplied(supplied)]]
            /\ UNCHANGED <<explicit_output, result_handler, wait_result>>
    /\ pstate' = [pstate EXCEPT ![p] = "Running"]
    /\ pipeline_table' = pipeline_table \cup {p}
    /\ ops' = [ops EXCEPT ![p] = Append(@, "command"), ![NoPid] = Append(@, "send_all")]
    /\ peer' = [peer EXCEPT ![p] = "running"]
    /\ close_pc' = [close_pc EXCEPT ![p] = [c \in Closers |-> "idle"]]
    /\ final_event' = [final_event EXCEPT ![p] = NoEvent]
    /\ UNCHANGED <<state, new_client, host, ci_table, host_responses, n_received,
                   last_event, last_call, listener, pool_call, pool_raised, avail,
                   peer_pool, peer_avail>>
    /\ UNCHANGED <<phost, streams, close_lock>>
    /\ UNCHANGED <<facade, kVars, gVars, dVars, wVars, cVars>>

\* ------------------------------------------------------------------------
\* Pool operations: open, close, disconnect, connect, availability
\* ------------------------------------------------------------------------
PoolCall(op, pc, todo) == [op |-> op, pc |-> pc, todo |-> todo]

\* The list of waiting calls without the call id.
RemoveWaiter(handlers, id) == SelectSeq(handlers, LAMBDA w : w.id # id)

\* The last pool call of the application has ended.
PoolCallEnded == pool_call.pc \in {"returned", "raised"}

\* open() up to its wait: pool.open(), connection.create and the wait for a
\* RunspacePoolState event (a MessageResult without condition / cond.wait()
\* with the reader thread started).  k is the number of Opened events the
\* peer sends in answer.
pool_open(k) ==
    /\ pool_call.op = "none"
    /\ state = "BeforeOpen"
    /\ state' = "Opening"
    /\ ops' = Issue(NoPid, "create")
    /\ result_handler' = [result_handler EXCEPT
                            ![NoPid] = Append(@, MessageResult(Waiter("open", 0),
                                                               "RunspacePoolState", NoCondition))]
    /\ listener' = IF facade = "sync" THEN "running" ELSE listener
    /\ pool_call' = PoolCall("open", "waiting", <<>>)
    /\ peer_pool' = [i \in 1..k |-> "Opened"]
    /\ UNCHANGED <<new_client, host, pipeline_table, wait_result, ci_table, host_responses,
                   n_received, last_event, last_call, pool_raised, avail, peer_avail>>
    /\ UNCHANGED <<facade, kVars, gVars, dVars, wVars, cVars, pipeVars>>

\* open() returns: the MessageResult has its event / the Condition was notified.
pool_open_return ==
    /\ pool_call.op = "open"
    /\ pool_call.pc = "waiting"
    /\ wait_result[Waiter("open", 0)] # NoEvent
    /\ pool_call' = [pool_call EXCEPT !.pc = "returned"]
    /\ result_handler' = [result_handler EXCEPT ![NoPid] = RemoveWaiter(@, Waiter("open", 0))]
    /\ UNCHANGED <<state, new_client, host, pipeline_table, wait_result, ci_table,
                   host_responses, ops, n_received, last_event, last_call, listener,
                   pool_raised, avail, peer_pool, peer_avail>>
    /\ UNCHANGED <<facade, kVars, gVars, dVars, wVars, cVars, pipeVars>>

\* close() is called: nothing to do on a Disconnected pool; otherwise the
\* pipelines of the table at this moment are to be closed one by one.  The
\* task-based close() arms its MessageResult before that.
pool_close_begin ==
    /\ pool_call.op \in {"open", "connect", "disconnect"}
    /\ PoolCallEnded
    /\ IF state = "Disconnected"
       THEN /\ pool_call' = PoolCall("close", "returned", <<>>)
            /\ UNCHANGED result_handler
       ELSE /\ pool_call' = PoolCall("close", "pipelines", SeqOf(pipeline_table))
            /\ result_handler' =
                 IF facade = "async"
                 THEN [result_handler EXCEPT
                         ![NoPid] = Append(@, MessageResult(Waiter("close", 0),
                                                            "RunspacePoolState", NotOpened))]
                 ELSE result_handler
    /\ UNCHANGED <<state, new_client, host, pipeline_table, wait_result, ci_table,
                   host_responses, ops, n_received, last_event, last_call, listener,
                   pool_raised, avail, peer_pool, peer_avail>>
    /\ UNCHANGED <<facade, kVars, gVars, dVars, wVars, cVars, pipeVars>>

\* close() after the pipelines: connection.close(pool) and the wait.  The
\* thread-based close() takes the Condition here and enters wait_for.
pool_close_send ==
    /\ pool_call.op = "close"
    /\ pool_call.pc = "pipelines"
    /\ pool_call.todo = <<>>
    /\ ops' = Issue(NoPid, "close")
    /\ peer_pool' = Append(peer_pool, "Closed")
    /\ pool_call' = [pool_call EXCEPT !.pc = IF facade = "async" THEN "waiting" ELSE "check"]
    /\ result_handler' =
         IF facade = "sync"
         THEN [result_handler EXCEPT
                 ![NoPid] = Append(@, MessageResult(Waiter("close", 0),
                                                    "RunspacePoolState", NotOpened))]
         ELSE result_handler
    /\ UNCHANGED <<state, new_client, host, pipeline_table, wait_result, ci_table,
                   host_responses, n_received, last_event, last_call, listener,
                   pool_raised, avail, peer_avail>>
    /\ UNCHANGED <<facade, kVars, gVars, dVars, wVars, cVars, pipeVars>>

\* AsyncRunspacePool.close returns: its MessageResult has its event.
pool_close_return ==
    /\ facade = "async"
    /\ pool_call.op = "close"
    /\ pool_call.pc = "waiting"
    /\ wait_result[Waiter("close", 0)] # NoEvent
    /\ pool_call' = [pool_call EXCEPT !.pc = "returned"]
    /\ UNCHANGED <<state, new_client, host, pipeline_table, result_handler, wait_result,
                   ci_table, host_responses, ops, n_received, last_event, last_call,
                   listener, pool_raised, avail, peer_pool, peer_avail>>
    /\ UNCHANGED <<facade, kVars, gVars, dVars, wVars, cVars, pipeVars>>

\* The predicate of the wait_for of RunspacePool.close, lambda: self.state !=
\* Opened, as the condition of the waiting call applied to the pool state.
WaitForHolds(id) ==
    \E i \in DOMAIN result_handler[NoPid] :
        /\ result_handler[NoPid][i].id = id
        /\ ConditionHolds(result_handler[NoPid][i].condition,
                          Ev("RunspacePoolState", NoPid, state, NoCi, NoVal, ""))

\* RunspacePool.close in cond.wait_for: the predicate is evaluated on entry
\* and after each notification; when it holds the call goes on to join the
\* reader thread, which ends with the transport, and returns.
pool_close_check ==
    /\ facade = "sync"
    /\ pool_call.op = "close"
    /\ \/ pool_call.pc = "check"
       \/ pool_call.pc = "waiting" /\ wait_result[Waiter("close", 0)] # NoEvent
    /\ IF WaitForHolds(Waiter("close", 0))
       THEN /\ pool_call' = [pool_call EXCEPT !.pc = "returned"]
            /\ result_handler' = [result_handler EXCEPT
                                    ![NoPid] = RemoveWaiter(@, Waiter("close", 0))]
            /\ listener' = "ended"
            /\ UNCHANGED wait_result
       ELSE /\ pool_call' = [pool_call EXCEPT !.pc = "waiting"]
            /\ wait_result' = [wait_result EXCEPT ![Waiter("close", 0)] = NoEvent]
            /\ UNCHANGED <<result_handler, listener>>
    /\ UNCHANGED <<state, new_client, host, pipeline_table, ci_table, host_responses, ops,
                   n_received, last_event, last_call, pool_raised, avail, peer_pool,
                   peer_avail>>
    /\ UNCHANGED <<facade, kVars, gVars, dVars, wVars, cVars, pipeVars>>

\* disconnect() up to the transport call: the state is set to Disconnecting,
\* connection.disconnect is issued.  todo keeps the table of this moment.
pool_disconnect_begin ==
    /\ PoolReady
    /\ Len(SelectSeq(ops[NoPid], LAMBDA x : x = "disconnect")) < MaxDisconnects
    /\ state' = "Disconnecting"
    /\ ops' = Issue(NoPid, "disconnect")
    /\ pool_call' = PoolCall("disconnect", "sent", SeqOf(pipeline_table))
    /\ peer' = [p \in Pipes |-> IF peer[p] = "running" THEN "detached" ELSE peer[p]]
    /\ UNCHANGED <<new_client, host, pipeline_table, result_handler, wait_result, ci_table,
                   host_responses, n_received, last_event, last_call, listener,
                   pool_raised, avail, peer_pool, peer_avail>>
    /\ UNCHANGED <<phost, pstate, streams, explicit_output, output_target, out, task,
                   sync_completed, close_pc, close_lock, final_event>>
    /\ UNCHANGED <<facade, kVars, gVars, dVars, wVars, cVars>>

\* disconnect() after the transport call: the pool state is Disconnected,
\* then each pipeline of the table is set Disconnected.  The task-based
\* facade assigns pipeline._pipeline.state; the thread-based one assigns
\* pipeline.state, a property without a setter, which raises AttributeError
\* at the first pipeline.
pool_disconnect_finish ==
    /\ pool_call.op = "disconnect"
    /\ pool_call.pc = "sent"
    /\ state' = "Disconnected"
    /\ IF facade = "async"
       THEN /\ pstate' = [p \in Pipes |->
                            IF p \in pipeline_table THEN "Disconnected" ELSE pstate[p]]
            /\ pool_call' = [pool_call EXCEPT !.pc = "returned"]
            /\ UNCHANGED pool_raised
       ELSE /\ UNCHANGED pstate
            /\ IF pipeline_table = {}
               THEN /\ pool_call' = [pool_call EXCEPT !.pc = "returned"]
                    /\ UNCHANGED pool_raised
               ELSE /\ pool_call' = [pool_call EXCEPT !.pc = "raised"]
                    /\ pool_raised' = "AttributeError"
    /\ UNCHANGED <<new_client, host, pipeline_table, result_handler, wait_result, ci_table,
                   host_responses, ops, n_received, last_event, last_call, listener,
                   avail, peer_pool, peer_avail>>
    /\ UNCHANGED <<phost, streams, explicit_output, output_target, out, task,
                   sync_completed, close_pc, close_lock, peer, final_event>>
    /\ UNCHANGED <<facade, kVars, gVars, dVars, wVars, cVars>>

\* connect() on a pool this client disconnected (_new_client is False):
\* connection.reconnect, the reader thread started anew, the state Opened.
pool_connect ==
    /\ pool_call.op = "disconnect"
    /\ PoolCallEnded
    /\ ~new_client
    /\ ops' = Issue(NoPid, "reconnect")
    /\ state' = "Opened"
    /\ listener' = IF facade = "sync" THEN "running" ELSE listener
    /\ pool_call' = [pool_call EXCEPT !.op = "connect", !.pc = "returned"]
    /\ UNCHANGED <<new_client, host, pipeline_table, result_handler, wait_result, ci_table,
                   host_responses, n_received, last_event, last_call, pool_raised, avail,
                   peer_pool, peer_avail>>
    /\ UNCHANGED <<facade, kVars, gVars, dVars, wVars, cVars, pipeVars>>

\* The event class that answers an availability operation of the kind.
AvailabilityEvent(kind) ==
    IF kind = "get" THEN "GetRunspaceAvailability" ELSE "SetRunspaceAvailability"

\* An availability operation up to its wait: the codec hands out the next
\* call id c; kind "get" is get_available_runspaces, kind "set" one of
\* set_min_runspaces, set_max_runspaces, reset_runspace_state.  The
\* task-based call arms MessageResult(event class, e.ci == ci); the
\* thread-based call enters wait_for(ci in _ci_table) on the Condition of
\* RunspaceAvailability.  What the codec keeps for the call id (setting) and
\* the runspace counts are left to the operation that makes the call.
availability_start(c, kind) ==
    /\ PoolReady
    /\ avail[c].pc = "idle"
    /\ \A d \in 1..(c - 1) : avail[d].pc # "idle"
    /\ avail' = [avail EXCEPT ![c] = [pc |-> IF facade = "async" THEN "waiting" ELSE "check",
                                      kind |-> kind, result |-> NoVal]]
    /\ result_handler' =
         [result_handler EXCEPT
            ![NoPid] = Append(@, MessageResult(Waiter("avail", c),
                                               IF facade = "async" THEN AvailabilityEvent(kind)
                                               ELSE "RunspaceAvailability",
                                               CiEquals(c)))]
    /\ ops' = Issue(NoPid, "send_all")
    /\ UNCHANGED <<state, new_client, host, pipeline_table, wait_result, ci_table,
                   host_responses, n_received, last_event, last_call, listener, pool_call,
                   pool_raised, peer_pool, peer_avail>>
    /\ UNCHANGED <<facade, kVars, dVars, tVars, wVars, cVars, pipeVars>>

\* The task-based operation returns result.count / result.success of the
\* event its MessageResult captured.
availability_return(c) ==
    /\ facade = "async"
    /\ avail[c].pc = "waiting"
    /\ wait_result[Waiter("avail", c)] # NoEvent
    /\ avail' = [avail EXCEPT ![c].pc = "returned",
                              ![c].result = wait_result[Waiter("avail", c)].val]
    /\ UNCHANGED <<state, new_client, host, pipeline_table, result_handler, wait_result,
                   ci_table, host_responses, ops, n_received, last_event, last_call,
                   listener, pool_call, pool_raised, peer_pool, peer_avail>>
    /\ UNCHANGED <<facade, kVars, gVars, dVars, wVars, cVars, pipeVars>>

\* The thread-based operation in wait_for: the predicate ci in _ci_table is
\* evaluated on entry and after each notification; when it holds the call
\* returns _ci_table.pop(ci).count / .success, an attribute only the event
\* class of the operation has.
availability_check(c) ==
    /\ facade = "sync"
    /\ \/ avail[c].pc = "check"
       \/ avail[c].pc = "waiting" /\ wait_result[Waiter("avail", c)] # NoEvent
    /\ IF ci_table[c] # NoEvent
       THEN /\ ci_table' = [ci_table EXCEPT ![c] = NoEvent]
            /\ result_handler' = [result_handler EXCEPT
                                    ![NoPid] = RemoveWaiter(@, Waiter("avail", c))]
            /\ IF ci_table[c].type = AvailabilityEvent(avail[c].kind)
               THEN /\ avail' = [avail EXCEPT ![c].pc = "returned",
                                              ![c].result = ci_table[c].val]
                    /\ UNCHANGED pool_raised
               ELSE /\ avail' = [avail EXCEPT ![c].pc = "raised"]
                    /\ pool_raised' = "AttributeError"
            /\ UNCHANGED wait_result
       ELSE /\ avail' = [avail EXCEPT ![c].pc = "waiting"]
            /\ wait_result' = [wait_result EXCEPT ![Waiter("avail", c)] = NoEvent]
            /\ UNCHANGED <<ci_table, result_handler, pool_raised>>
    /\ UNCHANGED <<state, new_client, host, pipeline_table, host_responses, ops,
                   n_received, last_event, last_call, listener, pool_call, peer_pool,
                   peer_avail>>
    /\ UNCHANGED <<facade, kVars, gVars, dVars, wVars, cVars, pipeVars>>

\* ------------------------------------------------------------------------
\* The peer, and the delivery of its events to the dispatcher
\* ------------------------------------------------------------------------
\* The host methods the peer calls in the model: one of each host_type that
\* returns a value, and one void method of the host and of the raw ui.
CalledMethods == {"GetName", "SetShouldExit", "ReadLine", "SetCursorSize"}

StateEvent(p, st, reason) == Ev("PipelineState", p, st, NoCi, NoVal, reason)

\* The terminal state events of a pipeline, with and without a reason.
TerminalEvents(p) ==
    {StateEvent(p, "Completed", "")}
    \cup {StateEvent(p, st, reason) : st \in {"Failed", "Stopped"}, reason \in {"", "reason"}}

HostCallEvents(o) ==
    {Ev(IF o = NoPid THEN "RunspacePoolHostCall" ELSE "PipelineHostCall", o, "-", c, NoVal, mi) :
        c \in 1..MaxCi, mi \in CalledMethods}

RecordEvents(o) == {Ev(type, o, "-", NoCi, 1, "") : type \in RecordTypes}

OutputEvents(p) == {Ev("PipelineOutput", p, "-", NoCi, v, "") : v \in Vals}

\* The dispatcher of the facade handles e.
Dispatch(e, raises) ==
    \/ event_received(e, raises)
    \/ response_listener(e, raises)

\* The peer has the pool open, or is running pipeline o.
PeerServes(o) ==
    IF o = NoPid THEN state = "Opened" /\ pool_call.op # "close"
    ELSE peer[o] \in {"running", "stopping"}

\* A host call of the peer reaches the dispatcher.
ReceiveHostCall(e, raises) ==
    /\ PeerServes(e.pipeline_id)
    /\ n_received < MaxEvents
    /\ Dispatch(e, raises)
    /\ n_received' = n_received + 1
    /\ last_event' = e
    /\ received' = Append(received, e)
    /\ UNCHANGED <<peer, peer_pool, peer_avail, final_event, cipher, invoking, gVars, dVars>>

\* A record or an output item of the peer reaches the dispatcher.
ReceiveData(e) ==
    /\ PeerServes(e.pipeline_id)
    /\ n_received < MaxEvents
    /\ Dispatch(e, FALSE)
    /\ n_received' = n_received + 1
    /\ last_event' = e
    /\ received' = Append(received, e)
    /\ UNCHANGED <<peer, peer_pool, peer_avail, final_event, cipher, invoking, gVars, dVars>>

\* The pipeline ends on the peer and its state event reaches the dispatcher;
\* a pipeline the peer was signalled to stop ends Stopped.  _on_state of the
\* thread-based facade sets the Event it was given as completed where it
\* sets the Event of the task, after its close().
ReceivePipelineState(e) ==
    /\ \/ peer[e.pipeline_id] = "running"
       \/ peer[e.pipeline_id] = "stopping" /\ e.state = "Stopped"
    /\ Dispatch(e, FALSE)
    /\ final_event' = [final_event EXCEPT ![e.pipeline_id] = e]
    /\ peer' = [peer EXCEPT ![e.pipeline_id] = "done"]
    /\ completion' = IF /\ facade = "sync"
                        /\ completion[e.pipeline_id].given
                        /\ task'[e.pipeline_id].pc = "set"
                     THEN fire_completed(e.pipeline_id, pipeline_table', close_pc')
                     ELSE completion
    /\ UNCHANGED <<peer_pool, peer_avail, n_received, last_event, kVars, gVars, xVars>>

\* The next RunspacePoolState event the peer owes reaches the dispatcher.
ReceivePoolState ==
    /\ peer_pool # <<>>
    /\ Dispatch(Ev("RunspacePoolState", NoPid, Head(peer_pool), NoCi, NoVal, ""), FALSE)
    /\ peer_pool' = Tail(peer_pool)
    /\ UNCHANGED <<peer, peer_avail, final_event, n_received, last_event, kVars, gVars, dVars>>

\* The peer answers the availability operation with call id c; val is the
\* success flag or the count it reports.  What the codec does with the
\* runspace counts as it decodes the response is left to the caller.
ReceiveAvailability(c, val) ==
    /\ avail[c].pc \in {"waiting", "check"}
    /\ ~peer_avail[c].sent
    /\ Dispatch(Ev(IF avail[c].kind = "get" THEN "GetRunspaceAvailability"
                   ELSE "SetRunspaceAvailability", NoPid, "-", c, val, ""), FALSE)
    /\ peer_avail' = [peer_avail EXCEPT ![c] = [sent |-> TRUE, val |-> val]]
    /\ UNCHANGED <<peer, peer_pool, final_event, n_received, last_event, kVars, tVars, dVars>>

\* The transport or the codec fails for good: the codec hands the runtime a
\* RunspacePoolState event with state Broken, and the peer sends no more.
ReceiveBroken ==
    /\ state \in {"Opening", "Opened"}
    /\ Dispatch(Ev("RunspacePoolState", NoPid, "Broken", NoCi, NoVal, "reason"), FALSE)
    /\ peer_pool' = <<>>
    /\ peer' = [p \in Pipes |-> IF peer[p] \in {"running", "stopping"} THEN "broken"
                                ELSE peer[p]]
    /\ UNCHANGED <<peer_avail, final_event, n_received, last_event, kVars, gVars, dVars>>

\* An event of a pipeline that was closed while it ran, sent before the
\* peer saw the close, reaches the dispatcher after the entry has left the
\* table: self.pipeline_table[event.pipeline_id] raises KeyError
\* (_async.py 631, _sync.py 179).  The thread-based dispatcher has stored a
\* call event in _ci_table before the lookup, and the error ends
\* _response_listener and with it the reader thread; the callback of the
\* task-based facade raises into the connection that called it, which is
\* taken to go on.
ReceiveUnknown(e) ==
    /\ e.pipeline_id # NoPid
    /\ e.pipeline_id \notin pipeline_table
    /\ peer[e.pipeline_id] = "closed"
    /\ final_event[e.pipeline_id] = NoEvent
    /\ facade = "sync" => listener = "running"
    /\ n_received < MaxEvents
    /\ dispatch_raised' = "KeyError"
    /\ ci_table' = IF facade = "sync" THEN get_event_registrations_ci(e) ELSE ci_table
    /\ listener' = IF facade = "sync" THEN "ended" ELSE listener
    /\ n_received' = n_received + 1
    /\ last_event' = e
    /\ received' = Append(received, e)
    /\ UNCHANGED <<state, new_client, host, pipeline_table, result_handler, wait_result,
                   host_responses, ops, last_call, pool_call, pool_raised, avail,
                   peer_pool, peer_avail>>
    /\ UNCHANGED <<facade, wVars, cVars, pipeVars, cipher, invoking, gVars, completion,
                   subscribers>>

\* The host calls of the peer over the whole of HostMethodIdentifier, with
\* one call id.
LookupEvents(o) ==
    {Ev(IF o = NoPid THEN "RunspacePoolHostCall" ELSE "PipelineHostCall", o, "-", 1, NoVal, mi) :
        mi \in HostMethodIdentifiers}

\* ------------------------------------------------------------------------
\* AsyncPipeline.stop / stop_async (_async.py 971-1021) and Pipeline.stop /
\* stop_async (_sync.py 480-494)
\* ------------------------------------------------------------------------
\* stop() on a running pipeline up to the signal.  The task-based facade
\* starts inner_stop, which sends the signal; the thread-based facade first
\* makes a task for the stop (_new_task with for_stop: a new output stream
\* replaces _output_stream, _completed_stop holds an Event).
stop_begin(p) ==
    /\ pstate[p] = "Running"
    /\ peer[p] = "running"
    /\ task[p].pc = "waiting"
    /\ task[p].stop = "none"
    /\ task' = [task EXCEPT ![p].stop = "signal"]
    /\ ops' = Issue(p, "signal")
    /\ peer' = [peer EXCEPT ![p] = "stopping"]
    /\ IF facade = "sync"
       THEN /\ output_target' = [output_target EXCEPT ![p] = "stop"]
            /\ out' = [out EXCEPT ![p]["stop"] = <<>>]
            /\ sync_completed' = [sync_completed EXCEPT ![p].stop = TRUE]
       ELSE UNCHANGED <<output_target, out, sync_completed>>
    /\ UNCHANGED <<state, new_client, host, pipeline_table, result_handler, wait_result,
                   ci_table, host_responses, n_received, last_event, last_call,
                   listener, pool_call, pool_raised, avail, peer_pool, peer_avail>>
    /\ UNCHANGED <<phost, pstate, streams, explicit_output, close_pc, close_lock,
                   final_event>>
    /\ UNCHANGED <<facade, kVars, gVars, dVars, wVars, cVars>>

\* The peer acknowledges the signal and connection.signal returns: the
\* task-based inner_stop ends and with it stop(); the thread-based stop()
\* goes on to wait for the Event of its task.
stop_ack(p) ==
    /\ task[p].stop = "signal"
    /\ task' = [task EXCEPT ![p].stop = IF facade = "async" THEN "done" ELSE "waiting"]
    /\ UNCHANGED <<facade, kVars, gVars, dVars, wVars, cVars, poolVars>>
    /\ UNCHANGED <<phost, pstate, streams, explicit_output, output_target, out,
                   sync_completed, close_pc, close_lock, peer, final_event>>

\* PipelineTask.wait of the stop task: _on_state has set _completed_stop.
stop_return(p) ==
    /\ facade = "sync"
    /\ task[p].stop = "waiting"
    /\ ~sync_completed[p].stop
    /\ task' = [task EXCEPT ![p].stop = "done"]
    /\ UNCHANGED <<facade, kVars, gVars, dVars, wVars, cVars, poolVars>>
    /\ UNCHANGED <<phost, pstate, streams, explicit_output, output_target, out,
                   sync_completed, close_pc, close_lock, peer, final_event>>

\* ------------------------------------------------------------------------
\* invoke_async with input data and a missing session key (_async.py
\* 916-969, _sync.py 448-478), exchange_key (_async.py 527-542, _sync.py
\* 265-272)
\* ------------------------------------------------------------------------
\* Sequences over S of length at most n.
SeqsUpTo(S, n) == UNION {[1..k -> S] : k \in 0..n}

\* The codec raises MissingCipherError when it has to serialize a secure
\* string and holds no session key.
MissingCipher(secure) == secure /\ ~cipher

\* exchange_key() up to its wait: the MessageResult for
\* EncryptedSessionKeyEvent / the Condition of EncryptedSessionKey,
\* pool.exchange_key() and send_all.
exchange_key_handlers ==
    [result_handler EXCEPT
       ![NoPid] = Append(@, MessageResult(Waiter("key", 0), "EncryptedSessionKey",
                                          NoCondition))]
exchange_key_ops == [ops EXCEPT ![NoPid] = @ \o <<"exchange_key", "send_all">>]

\* A wait of exchange_key() that returns at once.
KeyNotAwaited == TRUE

\* await event.wait() / cond.wait() of exchange_key() has returned.
KeyExchanged == wait_result[Waiter("key", 0)] # NoEvent

\* The handler list, the task and the output stream after invoke_async has
\* made its task (_pipelines_task armed / _new_task), no stream supplied.
invoke_task_handlers(p, handlers) ==
    IF facade = "async"
    THEN [handlers EXCEPT ![p] = Append(@, MessageResult(Waiter("task", p),
                                                         "PipelineState", NotRunning))]
    ELSE handlers

\* pipeline.start() / invoke() went through: the table entry,
\* connection.command and send_all; then the input loop if there is input.
invoke_started(p, call, handlers, ops_now) ==
    /\ pstate' = [pstate EXCEPT ![p] = "Running"]
    /\ pipeline_table' = pipeline_table \cup {p}
    /\ ops' = [ops_now EXCEPT ![p] = Append(@, "command"), ![NoPid] = Append(@, "send_all")]
    /\ peer' = [peer EXCEPT ![p] = "running"]
    /\ result_handler' = handlers
    /\ invoking' = [invoking EXCEPT
                      ![p] = [call EXCEPT !.pc = IF call.has_input THEN "input"
                                                 ELSE "returned"]]

\* invoke_async(input_data) up to the first suspension that depends on the
\* peer: the task is made and the pipeline started; when start() raises
\* MissingCipherError, exchange_key() is entered.
invoke_begin(p, secure, has_input, input) ==
    LET call == [NoInvoke EXCEPT !.pc = "start", !.secure = secure,
                                 !.has_input = has_input, !.items = input]
        handlers == invoke_task_handlers(p, result_handler)
    IN
    /\ PoolReady
    /\ pstate[p] = "NotStarted"
    /\ task[p].pc = "none"
    /\ \A q \in Pipes : invoking[q].pc \in {"none", "returned", "raised"}
    /\ has_input \/ input = <<>>
    /\ output_target' = [output_target EXCEPT ![p] = "own"]
    /\ out' = [out EXCEPT ![p]["own"] = <<>>]
    /\ sync_completed' = IF facade = "sync"
                         THEN [sync_completed EXCEPT ![p].invoke = TRUE]
                         ELSE sync_completed
    /\ task' = [task EXCEPT ![p] = [NoTask EXCEPT !.pc = "waiting",
                                                  !.own = (facade = "sync")]]
    /\ IF MissingCipher(secure)
       THEN /\ result_handler' = [handlers EXCEPT
                                    ![NoPid] = exchange_key_handlers[NoPid]]
            /\ ops' = exchange_key_ops
            /\ invoking' = [invoking EXCEPT
                              ![p] = [call EXCEPT !.pc = "key", !.at = "start",
                                                  !.missed = 1]]
            /\ UNCHANGED <<pstate, pipeline_table, peer>>
       ELSE invoke_started(p, call, handlers, ops)
    /\ UNCHANGED <<state, new_client, host, wait_result, ci_table, host_responses,
                   n_received, last_event, last_call, listener, pool_call, pool_raised,
                   avail, peer_pool, peer_avail>>
    /\ UNCHANGED <<phost, streams, explicit_output, close_pc, close_lock, final_event>>
    /\ UNCHANGED <<facade, wVars, cVars, cipher, received, gVars, dVars>>

\* exchange_key() has returned and the operation that raised is made again:
\* start(), or send() of the item the loop is at.  A MissingCipherError of
\* this second attempt is not caught and ends invoke_async.
invoke_key_return(p) ==
    LET call == [invoking[p] EXCEPT !.retries = @ + 1]
        handlers == [result_handler EXCEPT ![NoPid] = RemoveWaiter(@, Waiter("key", 0))]
    IN
    /\ invoking[p].pc = "key"
    /\ KeyExchanged
    /\ wait_result' = [wait_result EXCEPT ![Waiter("key", 0)] = NoEvent]
    /\ IF call.at = "start"
       THEN IF MissingCipher(call.secure)
            THEN /\ invoking' = [invoking EXCEPT ![p] = [call EXCEPT !.pc = "raised"]]
                 /\ result_handler' = handlers
                 /\ UNCHANGED <<pstate, pipeline_table, ops, peer>>
            ELSE invoke_started(p, call, handlers, ops)
       ELSE /\ result_handler' = handlers
            /\ UNCHANGED <<pstate, pipeline_table, peer>>
            /\ IF MissingCipher(call.items[call.next])
               THEN /\ invoking' = [invoking EXCEPT ![p] = [call EXCEPT !.pc = "raised"]]
                    /\ UNCHANGED ops
               ELSE /\ invoking' = [invoking EXCEPT
                                      ![p] = [call EXCEPT !.pc = "input",
                                                          !.sent = Append(@, call.next),
                                                          !.next = @ + 1]]
                    /\ ops' = Issue(NoPid, "send")
    /\ UNCHANGED <<state, new_client, host, ci_table, host_responses, n_received,
                   last_event, last_call, listener, pool_call, pool_raised, avail,
                   peer_pool, peer_avail>>
    /\ UNCHANGED <<phost, streams, explicit_output, output_target, out, task,
                   sync_completed, close_pc, close_lock, final_event>>
    /\ UNCHANGED <<facade, wVars, cVars, cipher, received, gVars, dVars>>

\* One round of the input loop: send(data) and connection.send with
\* buffering, exchange_key() when send raises MissingCipherError; after the
\* last item send_eof() / send_end(), send_all and the return of the task.
invoke_send(p) ==
    LET call == invoking[p] IN
    /\ call.pc = "input"
    /\ IF call.next > Len(call.items)
       THEN /\ invoking' = [invoking EXCEPT ![p].pc = "returned"]
            /\ ops' = Issue(NoPid, "send_all")
            /\ UNCHANGED result_handler
       ELSE IF MissingCipher(call.items[call.next])
            THEN /\ invoking' = [invoking EXCEPT ![p].pc = "key", ![p].at = "send",
                                                 ![p].missed = @ + 1]
                 /\ result_handler' = exchange_key_handlers
                 /\ ops' = exchange_key_ops
            ELSE /\ invoking' = [invoking EXCEPT ![p].sent = Append(@, call.next),
                                                 ![p].next = @ + 1]
                 /\ ops' = Issue(NoPid, "send")
                 /\ UNCHANGED result_handler
    /\ UNCHANGED <<state, new_client, host, pipeline_table, wait_result, ci_table,
                   host_responses, n_received, last_event, last_call, listener,
                   pool_call, pool_raised, avail, peer_pool, peer_avail>>
    /\ UNCHANGED pipeVars
    /\ UNCHANGED <<facade, wVars, cVars, cipher, received, gVars, dVars>>

\* The peer answers the key exchange: the codec takes the session key out
\* of the EncryptedSessionKey message and hands the event to the runtime.
ReceiveSessionKey ==
    /\ \E i \in DOMAIN result_handler[NoPid] :
          result_handler[NoPid][i].id = Waiter("key", 0)
    /\ ~cipher
    /\ Dispatch(Ev("EncryptedSessionKey", NoPid, "-", NoCi, NoVal, ""), FALSE)
    /\ cipher' = TRUE
    /\ UNCHANGED <<peer, peer_pool, peer_avail, final_event, n_received, last_event,
                   invoking, received, gVars, dVars>>

\* ------------------------------------------------------------------------
\* Construction of a pool and its runspace counts
\* ------------------------------------------------------------------------
\* if min_runspaces < 1 or max_runspaces < min_runspaces
ConfigInvalid(mn, mx) == mn < 1 \/ mx < mn

\* AsyncRunspacePool.__init__ / RunspacePool.__init__ called with the counts
\* mn and mx.  The task-based constructor raises ValueError for invalid
\* counts before it does anything else, and registers the callback of the
\* pool with the transport as its last step.  The thread-based constructor
\* hands the counts to the codec pool as they are and registers nothing.
RunspacePool_init(mn, mx) ==
    /\ runspaces.pc = "none"
    /\ IF facade = "async" /\ ConfigInvalid(mn, mx)
       THEN runspaces' = [runspaces EXCEPT !.pc = "raised", !.arg_min = mn, !.arg_max = mx]
       ELSE runspaces' = [pc |-> "constructed", arg_min |-> mn, arg_max |-> mx,
                          min |-> mn, max |-> mx, registered |-> facade = "async"]
    /\ UNCHANGED <<facade, kVars, dVars, setting, tVars, wVars, cVars, poolVars, pipeVars>>

\* set_min_runspaces(value) / set_max_runspaces(value), which is "min" or
\* "max": ci = pool.set_min_runspaces(value).  The codec pool needs no
\* message when the pool is not open yet or the count is the one it has: it
\* keeps the value and hands back no call id, and the call returns True.
\* Otherwise the call goes on as an availability operation with the call id,
\* and the codec keeps the value to set for when the peer agrees.
set_runspaces(which, value) ==
    /\ runspaces.pc = "constructed"
    /\ IF state = "BeforeOpen" \/ runspaces[which] = value
       THEN /\ runspaces' = [runspaces EXCEPT ![which] = value]
            /\ UNCHANGED <<facade, kVars, dVars, setting, tVars, wVars, cVars, poolVars, pipeVars>>
       ELSE /\ \E c \in 1..MaxCi :
                 /\ availability_start(c, "set")
                 /\ setting' = [setting EXCEPT ![c] = [which |-> which, value |-> value]]
            /\ UNCHANGED runspaces

\* The peer changes a count only to one that leaves 1 <= min <= max.
PeerAgrees(which, value) ==
    IF which = "min" THEN ~ConfigInvalid(value, runspaces.max)
    ELSE ~ConfigInvalid(runspaces.min, value)

\* The peer answers set_min_runspaces / set_max_runspaces of call id c; the
\* codec sets the count it kept for the call id when the answer is success.
ReceiveSetRunspaces(c, val) ==
    /\ setting[c] # NoSetting
    /\ val = 1 => PeerAgrees(setting[c].which, setting[c].value)
    /\ ReceiveAvailability(c, val)
    /\ runspaces' = IF val = 1
                    THEN [runspaces EXCEPT ![setting[c].which] = setting[c].value]
                    ELSE runspaces
    /\ setting' = [setting EXCEPT ![c] = NoSetting]

\* ------------------------------------------------------------------------
\* The pipeline tables of several pools
\* ------------------------------------------------------------------------
Pools == 1..NPools
Objs == 1..MaxObjs

\* The commands the server lists for pool k when it is enumerated.
CommandList(k) == {MaxObjs + k}

\* The pipeline objects not made yet, and the one the next constructor call
\* makes.
FreeObjs == {o \in Objs : pobjs[o].pool = NoPool}
NextObj == CHOOSE o \in FreeObjs : \A q \in FreeObjs : o <= q

\* The application constructs pool k; its pipeline table is empty.
table_pool_init(k) ==
    /\ pools[k] = "none"
    /\ pools' = [pools EXCEPT ![k] = "constructed"]
    /\ UNCHANGED <<ptables, pobjs>>
    /\ UNCHANGED <<facade, kVars, dVars, runspaces, setting, wVars, cVars, poolVars, pipeVars>>

\* A pipeline object that keeps the id it was constructed with.
fresh_id(fresh, cmd_id) == fresh

\* ps._pipeline.pipeline_id = cmd_id: the id of a pipeline object made for
\* a command of the server, fresh being the id it was constructed with.
enumerated_id(fresh, cmd_id) == cmd_id

\* get_runspace_pools / get_runspace_pool, one round of its loop: the pool
\* object for the server's pool k, Disconnected, with one Disconnected
\* pipeline object in its table for the command of the list.
get_runspace_pools(k) ==
    /\ pools[k] = "none"
    /\ FreeObjs # {}
    /\ \E cmd_id \in CommandList(k) :
          /\ pobjs' = [pobjs EXCEPT ![NextObj] = [pool |-> k,
                                                  id |-> enumerated_id(NextObj, cmd_id),
                                                  state |-> "Disconnected"]]
          /\ ptables' = [ptables EXCEPT ![k][cmd_id] = NextObj]
    /\ pools' = [pools EXCEPT ![k] = "enumerated"]
    /\ UNCHANGED <<facade, kVars, dVars, runspaces, setting, wVars, cVars, poolVars, pipeVars>>

\* AsyncPowerShell(runspace_pool) / PowerShell(runspace_pool) on pool k: a
\* pipeline object with an id of its own, not in any table.
new_pipeline(k) ==
    /\ pools[k] # "none"
    /\ FreeObjs # {}
    /\ pobjs' = [pobjs EXCEPT ![NextObj] = [pool |-> k, id |-> NextObj,
                                            state |-> "NotStarted"]]
    /\ UNCHANGED <<pools, ptables>>
    /\ UNCHANGED <<facade, kVars, dVars, runspaces, setting, wVars, cVars, poolVars, pipeVars>>

\* self.runspace_pool.pipeline_table[self._pipeline.pipeline_id] = self
table_put(o) == [ptables EXCEPT ![pobjs[o].pool][pobjs[o].id] = o]

\* invoke_async of pipeline object o, as far as the table goes: start() and
\* the entry.
table_invoke(o) ==
    /\ pobjs[o].state = "NotStarted"
    /\ ptables' = table_put(o)
    /\ pobjs' = [pobjs EXCEPT ![o].state = "Running"]
    /\ UNCHANGED pools
    /\ UNCHANGED <<facade, kVars, dVars, runspaces, setting, wVars, cVars, poolVars, pipeVars>>

\* connect_async of pipeline object o, as far as the table goes: the entry
\* and the state Running.
table_connect(o) ==
    /\ pobjs[o].state = "Disconnected"
    /\ ptables' = table_put(o)
    /\ pobjs' = [pobjs EXCEPT ![o].state = "Running"]
    /\ UNCHANGED pools
    /\ UNCHANGED <<facade, kVars, dVars, runspaces, setting, wVars, cVars, poolVars, pipeVars>>

\* The codec decodes the terminal state event of pipeline object o.
table_complete(o) ==
    /\ pobjs[o].state = "Running"
    /\ pobjs' = [pobjs EXCEPT ![o].state = "Completed"]
    /\ UNCHANGED <<pools, ptables>>
    /\ UNCHANGED <<facade, kVars, dVars, runspaces, setting, wVars, cVars, poolVars, pipeVars>>

\* close() of pipeline object o, as far as the table goes: the entry under
\* its id is looked up in the table of its parent pool and deleted, unless
\* there is none or its pipeline is Disconnected.
table_close(o) ==
    LET entry == ptables[pobjs[o].pool][pobjs[o].id] IN
    /\ pobjs[o].pool # NoPool
    /\ entry # NoObj
    /\ pobjs[entry].state # "Disconnected"
    /\ ptables' = [ptables EXCEPT ![pobjs[o].pool][pobjs[o].id] = NoObj]
    /\ UNCHANGED <<pools, pobjs>>
    /\ UNCHANGED <<facade, kVars, dVars, runspaces, setting, wVars, cVars, poolVars, pipeVars>>

\* disconnect() of pool k, as far as the table goes: the task-based facade
\* sets every pipeline of the table Disconnected; the thread-based facade
\* assigns to the read-only property Pipeline.state and changes nothing.
table_disconnect(k) ==
    /\ pools[k] # "none"
    /\ \E id \in PipelineIds : ptables[k][id] # NoObj /\ pobjs[ptables[k][id]].state = "Running"
    /\ pobjs' = [o \in Objs |->
                   IF facade = "async" /\ pobjs[o].pool = k /\ ptables[k][pobjs[o].id] = o
                   THEN [pobjs[o] EXCEPT !.state = "Disconnected"]
                   ELSE pobjs[o]]
    /\ UNCHANGED <<pools, ptables>>
    /\ UNCHANGED <<facade, kVars, dVars, runspaces, setting, wVars, cVars, poolVars, pipeVars>>

\* ------------------------------------------------------------------------
\* connect() on a pool obtained from enumeration (_async.py 463-485,
\* _sync.py 187-209)
\* ------------------------------------------------------------------------
\* The three events of the handshake, in the order connect() waits for them,
\* and the call id of the wait for each.
HandshakeTypes == <<"SessionCapability", "RunspacePoolInitData", "ApplicationPrivateData">>
HandshakeWaits == <<"sess", "init", "data">>

HandshakeWait(type) ==
    Waiter(HandshakeWaits[CHOOSE i \in 1..3 : HandshakeTypes[i] = type], 0)

\* The wait connect() is in and the message type it waits for there.
WaitOf(pc) == Waiter(pc, 0)
TypeOf(pc) == HandshakeTypes[CHOOSE i \in 1..3 : HandshakeWaits[i] = pc]

\* The orders in which the peer can deliver the three events.
HandshakeOrders ==
    {s \in [1..3 -> {HandshakeTypes[i] : i \in 1..3}] : \A i, j \in 1..3 : i # j => s[i] # s[j]}

\* A pool as get_runspace_pools / get_runspace_pool yields it: Disconnected,
\* _new_client set.
EnumeratedPool ==
    /\ runspaces = [pc |-> "constructed", arg_min |-> 1, arg_max |-> 1, min |-> 1,
                    max |-> 1, registered |-> facade = "async"]
    /\ state = "Disconnected"
    /\ new_client = TRUE
    /\ pipeline_table = {}
    /\ result_handler = [o \in Owners |-> <<>>]
    /\ wait_result = [id \in WaiterIds |-> NoEvent]
    /\ ci_table = [c \in 1..MaxCi |-> NoEvent]
    /\ host_responses = <<>>
    /\ ops = [o \in Owners |-> <<>>]
    /\ n_received = 0
    /\ last_event = NoEvent
    /\ last_call = "none"
    /\ listener = "none"
    /\ pool_call = NoPoolCall
    /\ pool_raised = "none"
    /\ avail = [c \in 1..MaxCi |-> NoAvail]
    /\ peer_pool = <<>>
    /\ peer_avail = [c \in 1..MaxCi |-> NoAnswer]
    /\ cipher = FALSE
    /\ received = <<>>
    /\ dispatch_raised = "none"
    /\ subscribers = <<>>
    /\ setting = [c \in 1..MaxCi |-> NoSetting]
    /\ pools = [k \in 1..NPools |-> "none"]
    /\ ptables = [k \in 1..NPools |-> [id \in PipelineIds |-> NoObj]]
    /\ pobjs = [o \in 1..MaxObjs |-> NoPipeline]

\* connect() with _new_client set, up to its first wait.  The task-based
\* call appends its three MessageResults, then pool.connect() and
\* connection.connect, and waits for the first.  The thread-based call sets
\* the state BeforeOpen, pool.connect(), connection.connect, takes the three
\* Conditions, starts the reader thread and enters sess.wait(), which
\* releases the first Condition only.  order is the order in which the peer
\* delivers its three events.
connect_new_client(order) ==
    /\ new_client
    /\ state = "Disconnected"
    /\ pool_call.op = "none"
    /\ ops' = Issue(NoPid, "connect")
    /\ pool_call' = PoolCall("connect", "sess", <<>>)
    /\ peer_pool' = order
    /\ IF facade = "async"
       THEN /\ result_handler' =
                 [result_handler EXCEPT
                    ![NoPid] = @ \o [i \in 1..3 |->
                                       MessageResult(Waiter(HandshakeWaits[i], 0),
                                                     HandshakeTypes[i], NoCondition)]]
            /\ UNCHANGED <<state, listener>>
       ELSE /\ result_handler' =
                 [result_handler EXCEPT
                    ![NoPid] = Append(@, MessageResult(Waiter("sess", 0),
                                                       "SessionCapability", NoCondition))]
            /\ state' = "BeforeOpen"
            /\ listener' = "running"
    /\ UNCHANGED <<new_client, host, pipeline_table, wait_result, ci_table, host_responses,
                   n_received, last_event, last_call, pool_raised, avail, peer_avail>>
    /\ UNCHANGED <<facade, kVars, gVars, dVars, wVars, cVars, pipeVars>>

\* connect() goes from one wait to the next, and after the third clears
\* _new_client and sets the state Opened.  The thread-based call enters the
\* next wait(), which releases that Condition, and on leaving the with
\* block releases all three.
connect_next_wait ==
    LET pc == pool_call.pc
        next == CASE pc = "sess" -> "init" [] pc = "init" -> "data" [] pc = "data" -> "returned"
        left == RemoveWaiter(result_handler[NoPid], WaitOf(pc))
    IN
    /\ pool_call.op = "connect"
    /\ pc \in {"sess", "init", "data"}
    /\ wait_result[WaitOf(pc)] # NoEvent
    /\ pool_call' = [pool_call EXCEPT !.pc = next]
    /\ result_handler' =
         [result_handler EXCEPT
            ![NoPid] = IF facade = "sync" /\ next # "returned"
                       THEN Append(left, MessageResult(WaitOf(next), TypeOf(next), NoCondition))
                       ELSE left]
    /\ new_client' = IF next = "returned" THEN FALSE ELSE new_client
    /\ state' = IF next = "returned" THEN "Opened" ELSE state
    /\ UNCHANGED <<host, pipeline_table, wait_result, ci_table, host_responses, ops,
                   n_received, last_event, last_call, listener, pool_raised, avail,
                   peer_pool, peer_avail>>
    /\ UNCHANGED <<facade, kVars, gVars, dVars, wVars, cVars, pipeVars>>

\* A reader thread that never waits for a Condition.
NeverHeldCondition(type) == TRUE

\* The reader thread can take the Condition of the message type: connect()
\* holds the three Conditions of the handshake but for the one it waits on.
ConditionFree(type) ==
    \/ facade = "async"
    \/ pool_call.op # "connect"
    \/ pool_call.pc = "returned"
    \/ type = TypeOf(pool_call.pc)

\* The next event of the handshake reaches the dispatcher.  The reader
\* thread takes the Condition of its type to notify it ("with reg:"), and
\* waits for it while connect() holds it.
ReceiveHandshake ==
    /\ pool_call.op = "connect"
    /\ peer_pool # <<>>
    /\ ConditionFree(Head(peer_pool))
    /\ Dispatch(Ev(Head(peer_pool), NoPid, "-", NoCi, NoVal, ""), FALSE)
    /\ peer_pool' = Tail(peer_pool)
    /\ UNCHANGED <<peer, peer_avail, final_event, n_received, last_event, kVars, gVars, dVars>>

\* ------------------------------------------------------------------------
\* Callbacks of the caller: AsyncEventHandler, _wrap_invoke (_async.py
\* 66-75, 285-290) and the places that call them
\* ------------------------------------------------------------------------
\* What a callback does when it is called.
Outcomes == {"ok", "raise"}

\* The callbacks subscribed to one handler, in the order of subscription,
\* each with what it does.
Subscriptions == UNION {[1..n -> Outcomes] : n \in 0..MaxSubscribers}

\* A callback called without a guard: its exception is the caller's.
bare_invoke(outcome) == IF outcome = "raise" THEN "raised" ELSE "returned"

\* _wrap_invoke: the callback is awaited inside try / except Exception, the
\* exception is logged.
wrap_invoke(outcome) == "returned"

\* AsyncEventHandler.__call__: the callbacks are called in order through
\* _wrap_invoke; called is the number of callbacks that were called, raised
\* whether one of them ended the loop.
AsyncEventHandler_call(outcomes) ==
    LET failing == {i \in DOMAIN outcomes : wrap_invoke(outcomes[i]) = "raised"}
    IN IF failing = {}
       THEN [called |-> Len(outcomes), raised |-> FALSE]
       ELSE [called |-> CHOOSE i \in failing : \A j \in failing : i <= j, raised |-> TRUE]

\* One run of callbacks as it is recorded.
Run(kind, e, outcomes, r) ==
    [kind |-> kind, event |-> e, outcomes |-> outcomes, called |-> r.called,
     raised |-> r.raised]

\* The events whose handling starts with subscribers: the state events of a
\* pipeline (state_changed) and the user events of the pool (user_event).
SubscribedEvents(p) ==
    TerminalEvents(p) \cup {Ev("UserEvent", NoPid, "-", NoCi, NoVal, "")}

\* _event_received of the task-based facade on an event with subscribers:
\* the subscribers are awaited first, then the waiters are offered the
\* event.  An exception that leaves the subscribers leaves _event_received.
ReceiveSubscribed(e, outcomes) ==
    LET o == e.pipeline_id
        r == AsyncEventHandler_call(outcomes)
    IN
    /\ facade = "async"
    /\ Len(subscribers) < MaxRuns
    /\ IF o = NoPid THEN PeerServes(NoPid) /\ n_received < MaxEvents
       ELSE peer[o] = "running" /\ o \in pipeline_table
    /\ subscribers' = Append(subscribers,
                             Run(IF o = NoPid THEN "user_event" ELSE "state_changed",
                                 e, outcomes, r))
    /\ IF r.raised
       THEN /\ dispatch_raised' = "Exception"
            /\ state' = CodecPoolState(e)
            /\ pstate' = CodecPipeState(e)
            /\ UNCHANGED <<new_client, host, pipeline_table, result_handler, wait_result,
                           ci_table, host_responses, ops, last_call, listener,
                           pool_call, pool_raised, avail>>
            /\ UNCHANGED <<phost, streams, explicit_output, output_target, out, task,
                           sync_completed, close_pc, close_lock>>
            /\ UNCHANGED <<facade, wVars, cVars>>
       ELSE /\ event_received(e, FALSE)
            /\ UNCHANGED dispatch_raised
    /\ final_event' = IF o = NoPid THEN final_event ELSE [final_event EXCEPT ![o] = e]
    /\ peer' = IF o = NoPid THEN peer ELSE [peer EXCEPT ![o] = "done"]
    /\ n_received' = IF o = NoPid THEN n_received + 1 ELSE n_received
    /\ last_event' = IF o = NoPid THEN e ELSE last_event
    /\ UNCHANGED <<peer_pool, peer_avail, kVars, gVars, completion>>

\* _pipelines_task resumes with its state event and awaits the completed
\* callback it was given through _wrap_invoke, then goes on to
\* self.close().  An exception that leaves the callback ends the task
\* where it is.
pipelines_task_wake_completed(p, outcome) ==
    LET raised == wrap_invoke(outcome) = "raised"
    IN
    /\ facade = "async"
    /\ Len(subscribers) < MaxRuns
    /\ task[p].pc = "waiting"
    /\ wait_result[Waiter("task", p)] # NoEvent
    /\ completion[p].given
    /\ subscribers' = Append(subscribers,
                             Run("completed", wait_result[Waiter("task", p)], <<outcome>>,
                                 [called |-> 1, raised |-> raised]))
    /\ completion' = fire_completed(p, pipeline_table, close_pc)
    /\ task' = IF raised
               THEN [task EXCEPT ![p].pc = "done",
                                 ![p].result = [kind |-> "Exception", items |-> <<>>,
                                                msg |-> ""]]
               ELSE [task EXCEPT ![p].pc = "closing"]
    /\ UNCHANGED <<facade, kVars, gVars, dispatch_raised, wVars, cVars, poolVars>>
    /\ UNCHANGED <<phost, pstate, streams, explicit_output, output_target, out,
                   sync_completed, close_pc, close_lock, peer, final_event>>

\* AsyncPSDataCollection._append(value) up to the end of the data_adding
\* subscribers.  An exception that leaves the subscribers leaves _append
\* before the insertion.
protocol_append_subscribed(value, outcomes) ==
    LET r == AsyncEventHandler_call(outcomes)
    IN
    /\ facade = "async"
    /\ Len(subscribers) < MaxRuns
    /\ append_pc = "idle"
    /\ Len(items) < MaxItems
    /\ IF completed
       THEN UNCHANGED <<fired, append_pc, append_val, coll_error, subscribers>>
       ELSE /\ subscribers' = Append(subscribers,
                                     Run("data_adding", NoEvent, outcomes, r))
            /\ fired' = [fired EXCEPT !.data_adding = @ + r.called]
            /\ IF r.raised
               THEN /\ coll_error' = "Exception"
                    /\ UNCHANGED <<append_pc, append_val>>
               ELSE /\ append_pc' = "adding"
                    /\ append_val' = value
                    /\ UNCHANGED coll_error
    /\ UNCHANGED <<items, completed, complete_pc, complete_returns, added_idx,
                   blocking_iterator, iters, add_lock, app_calls, complete_len>>
    /\ UNCHANGED <<facade, kVars, gVars, completion, dispatch_raised, wVars, poolVars,
                   pipeVars>>

\* ------------------------------------------------------------------------
\* invoke_async step by step: the task and its waiter, start(), the table
\* entry and the command (_async.py 916-936, 1065-1074; _sync.py 441-459)
\* ------------------------------------------------------------------------
\* invoke_async up to its first suspension.  The task-based call sets the
\* output stream, creates the task and waits for task_ready.  The
\* thread-based call makes its task (_new_task: the stream and the Event),
\* starts the pipeline, writes the table entry and is in
\* connection.command.
arm_invoke_call(p) ==
    /\ PoolReady
    /\ pstate[p] = "NotStarted"
    /\ task[p].pc = "none"
    /\ invoking[p].pc = "none"
    /\ output_target' = [output_target EXCEPT ![p] = "own"]
    /\ out' = [out EXCEPT ![p]["own"] = <<>>]
    /\ IF facade = "async"
       THEN /\ task' = [task EXCEPT ![p] = [NoTask EXCEPT !.pc = "created"]]
            /\ invoking' = [invoking EXCEPT ![p] = [NoInvoke EXCEPT !.pc = "ready"]]
            /\ UNCHANGED <<sync_completed, pstate, pipeline_table, ops, peer>>
       ELSE /\ task' = [task EXCEPT ![p] = [NoTask EXCEPT !.pc = "waiting", !.own = TRUE]]
            /\ sync_completed' = [sync_completed EXCEPT ![p].invoke = TRUE]
            /\ invoking' = [invoking EXCEPT ![p] = [NoInvoke EXCEPT !.pc = "command"]]
            /\ pstate' = [pstate EXCEPT ![p] = "Running"]
            /\ pipeline_table' = pipeline_table \cup {p}
            /\ ops' = Issue(p, "command")
            /\ peer' = [peer EXCEPT ![p] = "running"]
    /\ UNCHANGED <<state, new_client, host, result_handler, wait_result, ci_table,
                   host_responses, n_received, last_event, last_call, listener,
                   pool_call, pool_raised, avail, peer_pool, peer_avail>>
    /\ UNCHANGED <<phost, streams, explicit_output, close_pc, close_lock, final_event>>
    /\ UNCHANGED <<facade, wVars, cVars, cipher, received, gVars, dVars>>

\* _pipelines_task runs up to its wait: the MessageResult for the state
\* event is appended to the pipeline's _result_handler and ready is set.
arm_task_start(p) ==
    /\ facade = "async"
    /\ task[p].pc = "created"
    /\ result_handler' = invoke_task_handlers(p, result_handler)
    /\ task' = [task EXCEPT ![p].pc = "waiting"]
    /\ UNCHANGED <<state, new_client, host, pipeline_table, wait_result, ci_table,
                   host_responses, ops, n_received, last_event, last_call, listener,
                   pool_call, pool_raised, avail, peer_pool, peer_avail>>
    /\ UNCHANGED <<phost, pstate, streams, explicit_output, output_target, out,
                   sync_completed, close_pc, close_lock, peer, final_event>>
    /\ UNCHANGED <<facade, kVars, gVars, dVars, wVars, cVars>>

\* invoke_async resumes when ready is set: start(), the table entry, and
\* connection.command.
arm_invoke_resume(p) ==
    /\ facade = "async"
    /\ invoking[p].pc = "ready"
    /\ task[p].pc # "created"
    /\ invoking' = [invoking EXCEPT ![p].pc = "command"]
    /\ pstate' = [pstate EXCEPT ![p] = "Running"]
    /\ pipeline_table' = pipeline_table \cup {p}
    /\ ops' = Issue(p, "command")
    /\ peer' = [peer EXCEPT ![p] = "running"]
    /\ UNCHANGED <<state, new_client, host, result_handler, wait_result, ci_table,
                   host_responses, n_received, last_event, last_call, listener,
                   pool_call, pool_raised, avail, peer_pool, peer_avail>>
    /\ UNCHANGED <<phost, streams, explicit_output, output_target, out, task,
                   sync_completed, close_pc, close_lock, final_event>>
    /\ UNCHANGED <<facade, wVars, cVars, cipher, received, gVars, dVars>>

\* connection.command has returned: send_all, and invoke_async returns the
\* task.
arm_invoke_return(p) ==
    /\ invoking[p].pc = "command"
    /\ invoking' = [invoking EXCEPT ![p].pc = "returned"]
    /\ ops' = Issue(NoPid, "send_all")
    /\ UNCHANGED <<state, new_client, host, pipeline_table, result_handler, wait_result,
                   ci_table, host_responses, n_received, last_event, last_call,
                   listener, pool_call, pool_raised, avail, peer_pool, peer_avail>>
    /\ UNCHANGED pipeVars
    /\ UNCHANGED <<facade, wVars, cVars, cipher, received, gVars, dVars>>

\* A PipelineState event with state Running for a pipeline the peer runs
\* reaches the dispatcher.  The peer sees the transport close of the
\* pipeline if the dispatch makes one.
ReceivePipelineRunning(p) ==
    /\ peer[p] = "running"
    /\ Dispatch(StateEvent(p, "Running", ""), FALSE)
    /\ peer' = [peer EXCEPT ![p] = IF p \in pipeline_table' THEN @ ELSE "closed"]
    /\ completion' = IF /\ facade = "sync"
                        /\ completion[p].given
                        /\ task'[p].pc = "set"
                     THEN fire_completed(p, pipeline_table', close_pc')
                     ELSE completion
    /\ UNCHANGED <<peer_pool, peer_avail, final_event, n_received, last_event, kVars,
                   gVars, xVars>>

\* ------------------------------------------------------------------------
\* Spec: a pool is opened, pipelines are invoked, the peer sends error
\* records, output and the terminal state; the tasks end
\* ------------------------------------------------------------------------
ErrorEvents(o) == {e \in RecordEvents(o) : e.type = "ErrorRecord"}

Init ==
    /\ facade \in Facades
    /\ IdleWaiter
    /\ IdleColl
    /\ IdlePool
    /\ IdlePipes

Next ==
    \/ pool_open(1)
    \/ pool_open_return
    \/ ReceivePoolState
    \/ \E p \in Pipes, supplied \in Supplies : invoke_async(p, supplied)
    \/ \E p \in Pipes : \E e \in OutputEvents(p) \cup ErrorEvents(p) : ReceiveData(e)
    \/ \E p \in Pipes : \E e \in TerminalEvents(p) : ReceivePipelineState(e)
    \/ \E p \in Pipes : pipelines_task_wake(p)
    \/ \E p \in Pipes : close_enter(p, "task")
    \/ \E p \in Pipes : close_finish(p, "task")
    \/ \E p \in Pipes : pipelines_task_finish(p)
    \/ \E p \in Pipes : PipelineTask_wait(p)

Spec == Init /\ [][Next]_vars

\* ------------------------------------------------------------------------
\* SpecHost: an opened pool with one invoked pipeline, each with or without
\* a host, and the host calls of the peer
\* ------------------------------------------------------------------------
InitHost ==
    /\ facade \in Facades
    /\ IdleWaiter
    /\ IdleColl
    /\ host \in HostKinds
    /\ NewPool
    /\ phost \in {[p \in Pipes |-> IF p = 1 THEN h ELSE "none"] : h \in {"none", "ui"}}
    /\ NewPipes

NextHost ==
    \/ pool_open(1)
    \/ pool_open_return
    \/ ReceivePoolState
    \/ invoke_async(1, "none")
    \/ \E o \in {NoPid, 1}, raises \in BOOLEAN :
          \E e \in HostCallEvents(o) : ReceiveHostCall(e, raises)

SpecHost == InitHost /\ [][NextHost]_vars

\* ------------------------------------------------------------------------
\* SpecClose: pipelines of an opened pool and the calls that close them: the
\* task, the application, the pool's close(); a disconnect() of the pool
\* ------------------------------------------------------------------------
InitClose ==
    /\ facade \in Facades
    /\ IdleWaiter
    /\ IdleColl
    /\ IdlePool
    /\ IdlePipes

NextClose ==
    \/ \E k \in 1..MaxOpened : pool_open(k)
    \/ pool_open_return
    \/ ReceivePoolState
    \/ \E p \in Pipes : invoke_async(p, "none")
    \/ \E p \in Pipes : ReceivePipelineState(StateEvent(p, "Completed", ""))
    \/ \E p \in Pipes : pipelines_task_wake(p)
    \/ \E p \in Pipes, c \in Closers : close_enter(p, c)
    \/ \E p \in Pipes, c \in Closers : close_finish(p, c)
    \/ pool_disconnect_begin
    \/ pool_disconnect_finish
    \/ pool_close_begin
    \/ pool_close_send
    \/ pool_close_return
    \/ pool_close_check

SpecClose == InitClose /\ [][NextClose]_vars

\* ------------------------------------------------------------------------
\* SpecReconnect: an opened pool with invoked pipelines is disconnected and
\* connected again
\* ------------------------------------------------------------------------
NextReconnect ==
    \/ pool_open(1)
    \/ pool_open_return
    \/ ReceivePoolState
    \/ \E p \in Pipes : invoke_async(p, "none")
    \/ \E p \in Pipes : ReceivePipelineState(StateEvent(p, "Completed", ""))
    \/ \E p \in Pipes : \E e \in OutputEvents(p) : ReceiveData(e)
    \/ pool_disconnect_begin
    \/ pool_disconnect_finish
    \/ pool_connect

SpecReconnect == InitClose /\ [][NextReconnect]_vars

\* ------------------------------------------------------------------------
\* SpecPool: an opened pool, its availability operations and the pool level
\* host calls of the peer
\* ------------------------------------------------------------------------
InitPool ==
    /\ facade \in Facades
    /\ IdleWaiter
    /\ IdleColl
    /\ host \in {"none", "host"}
    /\ NewPool
    /\ IdlePipes

NextPool ==
    \/ \E k \in 1..MaxOpened : pool_open(k)
    \/ pool_open_return
    \/ ReceivePoolState
    \/ \E c \in 1..MaxCi, kind \in {"get", "set"} :
          availability_start(c, kind) /\ UNCHANGED <<runspaces, setting>>
    \/ \E c \in 1..MaxCi, val \in 0..1 :
          ReceiveAvailability(c, val) /\ UNCHANGED <<runspaces, setting>>
    \/ \E c \in 1..MaxCi : availability_return(c)
    \/ \E c \in 1..MaxCi : availability_check(c)
    \/ \E e \in {x \in HostCallEvents(NoPid) : x.text = "GetName"} : ReceiveHostCall(e, FALSE)

SpecPool == InitPool /\ [][NextPool]_vars

\* ------------------------------------------------------------------------
\* SpecStop: pipelines of an opened pool are invoked and stopped; the peer
\* acknowledges the signal and ends the pipeline
\* ------------------------------------------------------------------------
NextStop ==
    \/ pool_open(1)
    \/ pool_open_return
    \/ ReceivePoolState
    \/ \E p \in Pipes : invoke_async(p, "none")
    \/ \E p \in Pipes : \E e \in OutputEvents(p) : ReceiveData(e)
    \/ \E p \in Pipes : stop_begin(p)
    \/ \E p \in Pipes : stop_ack(p)
    \/ \E p \in Pipes : stop_return(p)
    \/ \E p \in Pipes : \E e \in TerminalEvents(p) : ReceivePipelineState(e)
    \/ \E p \in Pipes : pipelines_task_wake(p)
    \/ \E p \in Pipes : close_enter(p, "task")
    \/ \E p \in Pipes : close_finish(p, "task")
    \/ \E p \in Pipes : pipelines_task_finish(p)
    \/ \E p \in Pipes : PipelineTask_wait(p)

SpecStop == InitClose /\ [][NextStop]_vars

\* ------------------------------------------------------------------------
\* SpecBroken: an opened pool with invoked pipelines and availability
\* operations under way, and the terminal failure of the connection
\* ------------------------------------------------------------------------
NextBroken ==
    \/ \E k \in 1..MaxOpened : pool_open(k)
    \/ pool_open_return
    \/ ReceivePoolState
    \/ \E p \in Pipes : invoke_async(p, "none")
    \/ \E p \in Pipes : ReceivePipelineState(StateEvent(p, "Completed", ""))
    \/ \E p \in Pipes : pipelines_task_wake(p)
    \/ \E c \in 1..MaxCi, kind \in {"get", "set"} :
          availability_start(c, kind) /\ UNCHANGED <<runspaces, setting>>
    \/ \E c \in 1..MaxCi :
          state = "Opened" /\ ReceiveAvailability(c, 1) /\ UNCHANGED <<runspaces, setting>>
    \/ \E c \in 1..MaxCi : availability_return(c)
    \/ \E c \in 1..MaxCi : availability_check(c)
    \/ ReceiveBroken

SpecBroken == InitClose /\ [][NextBroken]_vars

\* ------------------------------------------------------------------------
\* SpecCipher: pipelines with and without secure strings in the command and
\* the input are invoked, one after the other, on an opened pool that has no
\* session key yet
\* ------------------------------------------------------------------------
NextCipher ==
    \/ pool_open(1)
    \/ pool_open_return
    \/ ReceivePoolState
    \/ \E p \in Pipes :
          /\ \A q \in 1..(p - 1) : invoking[q].pc = "returned"
          /\ invoking[p].pc = "none"
          /\ \E secure \in BOOLEAN, has_input \in BOOLEAN :
                \E input \in SeqsUpTo(BOOLEAN, IF has_input THEN MaxInputs ELSE 0) :
                   invoke_begin(p, secure, has_input, input)
    \/ ReceiveSessionKey
    \/ \E p \in Pipes : invoke_key_return(p)
    \/ \E p \in Pipes : invoke_send(p)

SpecCipher == InitClose /\ [][NextCipher]_vars

\* ------------------------------------------------------------------------
\* SpecConfig: a pool is constructed with some runspace counts and opened;
\* the counts are set before and after the pool is open
\* ------------------------------------------------------------------------
InitConfig ==
    /\ facade \in Facades
    /\ IdleWaiter
    /\ IdleColl
    /\ host = "none"
    /\ runspaces = NotConstructed
    /\ PoolFields
    /\ IdlePipes

NextConfig ==
    \/ \E mn \in 0..MaxRunspaces, mx \in 0..MaxRunspaces : RunspacePool_init(mn, mx)
    \/ runspaces.pc = "constructed" /\ pool_open(1)
    \/ pool_open_return
    \/ ReceivePoolState
    \/ \E which \in {"min", "max"}, value \in 0..MaxRunspaces : set_runspaces(which, value)
    \/ \E c \in 1..MaxCi, val \in 0..1 : ReceiveSetRunspaces(c, val)
    \/ \E c \in 1..MaxCi : availability_return(c)
    \/ \E c \in 1..MaxCi : availability_check(c)

SpecConfig == InitConfig /\ [][NextConfig]_vars

\* ------------------------------------------------------------------------
\* SpecTable: pools are constructed or enumerated from the server; pipeline
\* objects are made on them, invoked, connected, ended and closed.  The
\* pools come into being in the order of their numbers.
\* ------------------------------------------------------------------------
NextTable ==
    \/ \E k \in Pools : (\A j \in 1..(k - 1) : pools[j] # "none") /\ table_pool_init(k)
    \/ \E k \in Pools : (\A j \in 1..(k - 1) : pools[j] # "none") /\ get_runspace_pools(k)
    \/ \E k \in Pools : new_pipeline(k)
    \/ \E o \in Objs : table_invoke(o)
    \/ \E o \in Objs : table_connect(o)
    \/ \E o \in Objs : table_complete(o)
    \/ \E o \in Objs : table_close(o)
    \/ \E k \in Pools : table_disconnect(k)

SpecTable == InitClose /\ [][NextTable]_vars

\* ------------------------------------------------------------------------
\* SpecComplete: pipelines of an opened pool are invoked with and without a
\* completion callback, end on the peer and are closed by their task and by
\* the application
\* ------------------------------------------------------------------------
NextComplete ==
    \/ pool_open(1)
    \/ pool_open_return
    \/ ReceivePoolState
    \/ \E p \in Pipes : invoke_async(p, "none")
    \/ \E p \in Pipes : invoke_async_completed(p, "none")
    \/ \E p \in Pipes, st \in {"Completed", "Failed"} :
          ReceivePipelineState(StateEvent(p, st, ""))
    \/ \E p \in Pipes : pipelines_task_wake(p)
    \/ \E p \in Pipes, c \in {"task", "app"} : close_enter(p, c)
    \/ \E p \in Pipes, c \in {"task", "app"} : close_finish(p, c)
    \/ \E p \in Pipes : pipelines_task_finish(p)
    \/ \E p \in Pipes : PipelineTask_wait(p)

SpecComplete == InitClose /\ [][NextComplete]_vars

\* invoke_async step by step with the state events of the invocation,
\* Running among them.
NextArm ==
    \/ pool_open(1)
    \/ pool_open_return
    \/ ReceivePoolState
    \/ \E p \in Pipes : arm_invoke_call(p)
    \/ \E p \in Pipes : arm_task_start(p)
    \/ \E p \in Pipes : arm_invoke_resume(p)
    \/ \E p \in Pipes : arm_invoke_return(p)
    \/ \E p \in Pipes : ReceivePipelineRunning(p)
    \/ \E p \in Pipes, st \in {"Completed", "Failed", "Stopped"} :
          ReceivePipelineState(StateEvent(p, st, ""))
    \/ \E p \in Pipes : pipelines_task_wake(p)
    \/ \E p \in Pipes : close_enter(p, "task")
    \/ \E p \in Pipes : close_finish(p, "task")
    \/ \E p \in Pipes : pipelines_task_finish(p)
    \/ \E p \in Pipes : PipelineTask_wait(p)

SpecArm == InitClose /\ [][NextArm]_vars

\* Pipelines closed by the application while they run, and the events the
\* peer had sent before it saw the close.
LateEvents(p) ==
    OutputEvents(p) \cup {e \in HostCallEvents(p) : e.ci = 1 /\ e.text = "GetName"}

NextLate ==
    \/ pool_open(1)
    \/ pool_open_return
    \/ ReceivePoolState
    \/ \E p \in Pipes : invoke_async(p, "none")
    \/ \E p \in Pipes : \E e \in OutputEvents(p) : ReceiveData(e)
    \/ \E p \in Pipes : \E e \in LateEvents(p) : ReceiveUnknown(e)
    \/ \E p \in Pipes : ReceivePipelineState(StateEvent(p, "Completed", ""))
    \/ \E p \in Pipes : pipelines_task_wake(p)
    \/ \E p \in Pipes, c \in {"task", "app"} : close_enter(p, c)
    \/ \E p \in Pipes, c \in {"task", "app"} : close_finish(p, c)
    \/ \E p \in Pipes : pipelines_task_finish(p)
    \/ \E p \in Pipes : PipelineTask_wait(p)

SpecLate == InitClose /\ [][NextLate]_vars

\* connect() on an enumerated pool with the three events of the handshake in
\* every order, then disconnect() and connect() again, and close().
InitHandshake ==
    /\ facade \in Facades
    /\ IdleWaiter
    /\ IdleColl
    /\ host = "none"
    /\ EnumeratedPool
    /\ IdlePipes

NextHandshake ==
    \/ \E order \in HandshakeOrders : connect_new_client(order)
    \/ connect_next_wait
    \/ ReceiveHandshake
    \/ \E p \in Pipes : invoke_async(p, "none")
    \/ \E p \in Pipes : ReceivePipelineState(StateEvent(p, "Completed", ""))
    \/ \E p \in Pipes : pipelines_task_wake(p)
    \/ \E p \in Pipes : close_enter(p, "task")
    \/ \E p \in Pipes : close_finish(p, "task")
    \/ pool_disconnect_begin
    \/ pool_disconnect_finish
    \/ pool_connect

SpecHandshake == InitHandshake /\ [][NextHandshake]_vars

\* Record events of every type for the pool and for a pipeline, and output.
NextRecords ==
    \/ pool_open(1)
    \/ pool_open_return
    \/ ReceivePoolState
    \/ invoke_async(1, "none")
    \/ \E o \in {NoPid, 1} : \E e \in RecordEvents(o) : ReceiveData(e)
    \/ \E e \in OutputEvents(1) : ReceiveData(e)

SpecRecords == InitClose /\ [][NextRecords]_vars

\* One pipeline invoked, ended and invoked again, with and without an
\* output stream of the caller.
NextAgain ==
    \/ pool_open(1)
    \/ pool_open_return
    \/ ReceivePoolState
    \/ \E supplied \in Supplies : invoke_async(1, supplied)
    \/ \E supplied \in Supplies : invoke_again(1, supplied)
    \/ \E e \in OutputEvents(1) : ReceiveData(e)
    \/ ReceivePipelineState(StateEvent(1, "Completed", ""))
    \/ pipelines_task_wake(1)
    \/ close_enter(1, "task")
    \/ close_finish(1, "task")
    \/ pipelines_task_finish(1)
    \/ PipelineTask_wait(1)

SpecAgain == InitClose /\ [][NextAgain]_vars

\* One pipeline and one collection of the task-based facade with callbacks
\* of the caller that fail or not: the subscribers of state_changed,
\* user_event and data_adding, and the completed callback of the task.
NextSubscribers ==
    \/ pool_open(1)
    \/ pool_open_return
    \/ ReceivePoolState
    \/ invoke_async_completed(1, "none")
    \/ \E e \in SubscribedEvents(1), outcomes \in Subscriptions : ReceiveSubscribed(e, outcomes)
    \/ \E outcome \in Outcomes : pipelines_task_wake_completed(1, outcome)
    \/ close_enter(1, "task")
    \/ close_finish(1, "task")
    \/ pipelines_task_finish(1)
    \/ \E value \in Vals, outcomes \in Subscriptions : protocol_append_subscribed(value, outcomes)
    \/ protocol_append_insert

SpecSubscribers == InitClose /\ [][NextSubscribers]_vars

\* The lookup of get_host_method over every identifier and every host
\* tree: host calls of the peer for an invoked pipeline.
NextLookup ==
    \/ pool_open(1)
    \/ pool_open_return
    \/ ReceivePoolState
    \/ invoke_async(1, "none")
    \/ \E e \in LookupEvents(1) : n_received < MaxLookups /\ ReceiveHostCall(e, FALSE)

SpecLookup == InitHost /\ [][NextLookup]_vars

\* ------------------------------------------------------------------------
\* SpecColl: one collection of either facade, its appends and completion,
\* the appends and inserts of the application, one iterator
\* ------------------------------------------------------------------------
InitColl ==
    /\ facade \in Facades
    /\ IdleWaiter
    /\ blocking_iterator \in (IF facade = "async" THEN BOOLEAN ELSE {TRUE})
    /\ NewColl
    /\ IdlePool
    /\ IdlePipes

NextColl ==
    \/ \E value \in Vals : append(value)
    \/ \E index \in 0..MaxItems, value \in Vals : insert(index, value)
    \/ \E value \in Vals : protocol_append(value)
    \/ protocol_append_insert
    \/ complete_begin
    \/ complete_end
    \/ \E value \in Vals, by \in {"app", "reader"} : PSDataStream_append(value, by)
    \/ PSDataStream_finalize
    \/ PSDataStream_next(1)

SpecColl == InitColl /\ [][NextColl]_vars

\* ------------------------------------------------------------------------
\* SpecIter: one collection, the appends of the dispatcher, its completion,
\* and iterators that run over it at the same time
\* ------------------------------------------------------------------------
NextIter ==
    \/ \E value \in Vals : protocol_append(value)
    \/ protocol_append_insert
    \/ complete_begin
    \/ complete_end
    \/ \E value \in Vals : PSDataStream_append(value, "reader")
    \/ PSDataStream_finalize
    \/ \E i \in Iters : aiter_resume(i)
    \/ \E i \in Iters : aiter_next(i)
    \/ \E i \in Iters : PSDataStream_next(i)

SpecIter == InitColl /\ [][NextIter]_vars

\* ------------------------------------------------------------------------
\* SpecWaiter: one MessageResult, any sequence of set() calls
\* ------------------------------------------------------------------------
WaiterKinds ==
    {MessageResult(Waiter("app", 0), "PipelineState", NotRunning),
     MessageResult(Waiter("app", 0), "RunspacePoolState", NoCondition),
     MessageResult(Waiter("app", 0), "RunspacePoolState", NotOpened),
     MessageResult(Waiter("app", 0), "EncryptedSessionKey", NoCondition)}
    \cup {MessageResult(Waiter("app", 0), "SetRunspaceAvailability", CiEquals(c)) : c \in 1..MaxCi}

WaiterEvents ==
    {Ev("PipelineState", 1, s, NoCi, NoVal, "") : s \in {"Running", "Completed", "Failed"}}
    \cup {Ev("RunspacePoolState", NoPid, s, NoCi, NoVal, "") : s \in {"Opened", "Closed"}}
    \cup {Ev("EncryptedSessionKey", NoPid, "-", NoCi, NoVal, "")}
    \cup {Ev("SetRunspaceAvailability", NoPid, "-", c, b, "") : c \in 1..MaxCi, b \in 0..1}

InitWaiter ==
    /\ facade = "async"
    /\ waiter \in WaiterKinds
    /\ set_returns = <<>>
    /\ IdleColl
    /\ IdlePool
    /\ IdlePipes

\* A caller invokes set(value) on the MessageResult.
WaiterSet(value) ==
    /\ Len(set_returns) < MaxSetCalls
    /\ set_returns' = Append(set_returns, MessageResult_accepts(waiter, value))
    /\ waiter' = MessageResult_set(waiter, value)
    /\ UNCHANGED <<facade, kVars, gVars, dVars, cVars, poolVars, pipeVars>>

NextWaiter == \E value \in WaiterEvents : WaiterSet(value)

SpecWaiter == InitWaiter /\ [][NextWaiter]_vars

\* ========================================================================
\* Properties
\* ========================================================================

\* C5: once complete() / finalize() has returned, no later step changes the
\* contents of the collection or calls a data_adding / data_added subscriber:
\* a protocol append made after the completion is a no-op.
C5_NoAppendAfterComplete ==
    [][complete_returns > 0 =>
         /\ items' = items
         /\ fired'.data_adding = fired.data_adding
         /\ fired'.data_added = fired.data_added]_vars

\* C6: over any sequence of set() calls on one MessageResult, once a call has
\* returned True every later call returns False.
C6_AtMostOneSetSucceeds ==
    \A i, j \in DOMAIN set_returns : (i < j /\ set_returns[i]) => ~set_returns[j]

\* The transport closes issued for pipeline p, and whether a close() call on
\* p has returned.
ClosesIssued(p) == Len(SelectSeq(ops[p], LAMBDA x : x = "close"))
CloseReturned(p) == \E c \in Closers : close_pc[p][c] = "returned"

C2_OneResponsePerCall ==
    [][(/\ n_received' = n_received + 1
        /\ last_event'.type \in HostCallTypes
        /\ ~host_method_table(last_event'.text).is_void)
       => host_responses' = Append(host_responses,
                                   [ci |-> last_event'.ci,
                                    error |-> last_call' # "returned"])]_vars

\* C3: in every step in which a void host method fails, one error record is
\* appended to the error stream of the pool or pipeline that received the
\* call, and nothing else changes: no host response, no transport
\* operation, no other stream, no output stream, no state, no reader thread.
C3_VoidFailureOnlyRecords ==
    [][(/\ n_received' = n_received + 1
        /\ last_event'.type \in HostCallTypes
        /\ host_method_table(last_event'.text).is_void
        /\ last_call' \in {"raised", "absent"})
       => /\ streams' = [streams EXCEPT
                           ![last_event'.pipeline_id]["error"] = Append(@, HostErrorRecord)]
          /\ host_responses' = host_responses
          /\ ops' = ops
          /\ out' = out
          /\ output_target' = output_target
          /\ pstate' = pstate
          /\ state' = state
          /\ listener' = listener]_vars

\* C4: no availability operation ends with an error, and one that has
\* returned was answered by the peer and returned the success flag / count
\* of the answer to its own call id.
C4_OwnAnswerResolves ==
    \A c \in 1..MaxCi :
        /\ avail[c].pc # "raised"
        /\ avail[c].pc = "returned" =>
             peer_avail[c].sent /\ avail[c].result = peer_avail[c].val

\* C7: in every state, had_errors of a pipeline is true exactly when its
\* error stream holds a record.
C7_HadErrorsIffErrorStream ==
    \A p \in Pipes : had_errors(p) <=> Len(streams[p]["error"]) > 0

\* C8: without a disconnect(), open() has returned only in pool state Opened
\* and close() has returned only in pool state Closed, however many Opened
\* events the peer sends and whenever they arrive.
C8_OpenThenCloseEndsClosed ==
    (\A i \in DOMAIN ops[NoPid] : ops[NoPid][i] # "disconnect") =>
        /\ (pool_call.op = "open" /\ pool_call.pc = "returned") => state = "Opened"
        /\ (pool_call.op = "close" /\ pool_call.pc = "returned") => state = "Closed"

\* close() has returned after an open() to which the peer sent every Opened
\* event it can, one of them after close() had started to wait.
C8_ClosedAfterLateOpened ==
    /\ pool_call.op = "close"
    /\ pool_call.pc = "returned"
    /\ state = "Closed"
    /\ peer_pool = <<>>
    /\ wait_result[Waiter("open", 0)] # NoEvent
    /\ Len(SelectSeq(ops[NoPid], LAMBDA x : x = "close")) = 1

\* C9: disconnect() returns without error and leaves every pipeline of the
\* table Disconnected; the connect() that follows returns without error in
\* pool state Opened with the pipeline table of the time of the disconnect().
C9_DisconnectThenConnect ==
    [][/\ (pool_call.op = "disconnect" /\ pool_call.pc = "sent" /\ pool_call'.pc # "sent")
          => /\ pool_call'.pc = "returned"
             /\ pool_raised' = "none"
             /\ \A p \in pipeline_table' : pstate'[p] = "Disconnected"
       /\ (pool_call.op = "disconnect" /\ pool_call'.op = "connect")
          => /\ pool_call'.pc = "returned"
             /\ pool_raised' = "none"
             /\ state' = "Opened"
             /\ SeqOf(pipeline_table') = pool_call'.todo]_vars

\* C10: a task that has ended ended with PipelineFailed exactly when the
\* pipeline ended Failed, with PipelineStopped exactly when it ended Stopped,
\* the message being the reason of the state event or the default text, and
\* otherwise returned the output items, or the empty list when the caller
\* supplied the output stream.
C10_TaskResultFollowsState ==
    \A p \in Pipes :
        task[p].pc = "done" =>
            LET e == final_event[p]
            IN task[p].result =
                 CASE e.state = "Failed" ->
                      [kind |-> "PipelineFailed", items |-> <<>>,
                       msg |-> IF e.text = "" THEN "Unknown failure." ELSE e.text]
                   [] e.state = "Stopped" ->
                      [kind |-> "PipelineStopped", items |-> <<>>,
                       msg |-> IF e.text = ""
                               THEN "The pipeline has been stopped." ELSE e.text]
                   [] OTHER ->
                      [kind |-> "list", msg |-> "",
                       items |-> IF task[p].supplied THEN <<>> ELSE out[p]["own"]]

\* C11: once stop() was called on a running pipeline, the peer ended it with
\* a Stopped state event and the invoke task has ended, the task has failed
\* with PipelineStopped, the pipeline is not in the pool's table and the pool
\* is still Opened.
C11_StopEndsStopped ==
    \A p \in Pipes :
        (task[p].stop # "none" /\ final_event[p].state = "Stopped" /\ task[p].pc = "done")
        => /\ task[p].result.kind = "PipelineStopped"
           /\ p \notin pipeline_table
           /\ state = "Opened"

\* The call id is blocked in a wait nothing has released: a MessageResult
\* still in the handler list (task-based), a wait on a Condition that was
\* not notified or an Event that was not set (thread-based).
C12_Blocked(o, id) ==
    IF facade = "sync" /\ o # NoPid
    THEN task[o].pc = "waiting"
    ELSE /\ \E i \in DOMAIN result_handler[o] : result_handler[o][i].id = id
         /\ wait_result[id] = NoEvent

\* C12: once the pool is Broken, no waiter of the pool or of one of its
\* pipelines is left blocked: open, close, the availability operations and
\* the invoke tasks have all been released.
C12_BrokenReleasesWaiters ==
    state = "Broken" =>
        /\ \A id \in WaiterIds : ~C12_Blocked(NoPid, id)
        /\ \A p \in Pipes : ~C12_Blocked(p, Waiter("task", p))

\* C13: MissingCipherError never ends an invoke_async call; a call is in
\* exchange_key() at most once, and whenever it is past it the session key
\* has been received and the operation that raised was retried exactly
\* once; a call that returned has handed every input item to the codec
\* once, in order.
C13_KeyExchangeThenOneRetry ==
    \A p \in Pipes :
        LET call == invoking[p] IN
        /\ call.pc # "raised"
        /\ call.missed <= 1
        /\ call.retries = (IF call.pc = "key" THEN call.missed - 1 ELSE call.missed)
        /\ (call.missed > 0 /\ call.pc # "key") => cipher
        /\ call.pc = "returned" => call.sent = [i \in 1..Len(call.items) |-> i]

\* An invoke_async call has returned whose second input item raised
\* MissingCipherError and was sent after the key exchange.
C13_RetriedSendReturned ==
    \E p \in Pipes :
        /\ invoking[p].pc = "returned"
        /\ invoking[p].at = "send"
        /\ invoking[p].retries = 1
        /\ invoking[p].sent = <<1, 2>>
        /\ cipher

\* The values of the received events of pipeline p of the type, in order.
C14_Values(p, type) ==
    LET es == SelectSeq(received, LAMBDA e : e.pipeline_id = p /\ e.type = type)
    IN [i \in 1..Len(es) |-> es[i].val]

\* s ends with t.
C14_EndsWith(s, t) ==
    Len(t) <= Len(s) /\ SubSeq(s, Len(s) - Len(t) + 1, Len(s)) = t

\* C14: both facades end an invocation in the same way, the way that
\* follows from the calls and the events alone: when the task of a pipeline
\* has ended, each record stream holds the records of its type in reception
\* order, the output stream ends with the output items in reception order,
\* the pipeline has the state the peer reported and is out of the table, the
\* transport was asked for command and close, and the task failed on Failed
\* or Stopped and otherwise returned the output (nothing when the caller
\* supplied the stream).
C14_SameOutcomeInBothFacades ==
    \A p \in Pipes :
        task[p].pc = "done" =>
            LET outs == C14_Values(p, "PipelineOutput")
                target == IF task[p].supplied THEN "caller" ELSE "own"
            IN
            /\ \A name \in StreamNames : streams[p][name] = C14_Values(p, RecordType(name))
            /\ C14_EndsWith(out[p][target], outs)
            /\ pstate[p] = final_event[p].state
            /\ p \notin pipeline_table
            /\ ops[p] = <<"command", "close">>
            /\ task[p].result.kind =
                 (CASE final_event[p].state = "Failed" -> "PipelineFailed"
                    [] final_event[p].state = "Stopped" -> "PipelineStopped"
                    [] OTHER -> "list")
            /\ task[p].result.kind = "list" =>
                 task[p].result.items = (IF task[p].supplied THEN <<>> ELSE outs)

\* C15: an append or insert of the application on a completed collection
\* fails with the closed-collection error (ValueError) and leaves the
\* contents as they are; on a collection that is not completed it puts the
\* value in and calls no data_adding / data_added subscriber.
C15_AppAppendFailsWhenCompleted ==
    [][app_calls' # app_calls =>
         IF completed
         THEN coll_error' = "ValueError" /\ items' = items
         ELSE /\ \E index \in 0..Len(items), value \in Vals :
                    items' = InsertAt(items, index, value)
              /\ coll_error' = "none"
              /\ fired' = fired]_vars

\* s is the beginning of t.
IsPrefix(s, t) == Len(s) <= Len(t) /\ s = SubSeq(t, 1, Len(s))

\* Iterator i is the only iterator made over the collection.
Alone(i) == \A j \in Iters \ {i} : iters[j].pc = "none"

\* C16: what an iterator that runs alone has yielded is the beginning of the
\* list, in order and without repetition.  It suspends only on a blocking
\* collection and only when it has caught up, and no append of the
\* dispatcher leaves it suspended.  It does not end before it has caught up
\* (not blocking) or before the completion with every item appended before
\* the completion yielded (blocking).
C16_IteratorYieldsInOrder ==
    [][\A i \in Iters :
         Alone(i)' =>
           /\ IsPrefix(iters'[i].yielded, items')
           /\ iters'[i].pc = "waiting" =>
                blocking_iterator /\ iters'[i].yielded = items'
           /\ (iters[i].pc # "done" /\ iters'[i].pc = "done") =>
                IF blocking_iterator
                THEN complete_len # NotYet /\ Len(iters'[i].yielded) >= complete_len
                ELSE iters'[i].yielded = items']_vars

\* A blocking iterator that ran alone has ended after the completion with
\* the whole list yielded.
C16_BlockingIteratorEnded ==
    /\ blocking_iterator
    /\ Alone(1)
    /\ iters[1].pc = "done"
    /\ Len(items) = MaxItems
    /\ iters[1].yielded = items

\* C17: every iterator has a cursor of its own: whatever the interleaving
\* with the other iterators and with the appends, what each has yielded is
\* the beginning of the list from index 0, and when it ends it has yielded
\* the whole list (not blocking) or every item appended before the
\* completion (blocking).
C17_EachIteratorYieldsAll ==
    [][\A i \in Iters :
         /\ IsPrefix(iters'[i].yielded, items')
         /\ (iters[i].pc # "done" /\ iters'[i].pc = "done") =>
              IF blocking_iterator
              THEN complete_len # NotYet /\ Len(iters'[i].yielded) >= complete_len
              ELSE iters'[i].yielded = items']_vars

\* ------------------------------------------------------------------------
\* C18: a constructor call with min_runspaces < 1 or max_runspaces <
\* min_runspaces fails, and has registered no callback with the transport;
\* a constructed pool has 1 <= min_runspaces <= max_runspaces, whatever
\* set_min_runspaces / set_max_runspaces calls were made on it.
\* ------------------------------------------------------------------------
C18_RunspaceCountsValid ==
    /\ (runspaces.pc # "none" /\ ConfigInvalid(runspaces.arg_min, runspaces.arg_max))
          => (runspaces.pc = "raised" /\ ~runspaces.registered)
    /\ runspaces.pc = "constructed" => ~ConfigInvalid(runspaces.min, runspaces.max)

C20_TerminalWaiterResolved(p) ==
    IF facade = "async"
    THEN wait_result[Waiter("task", p)] # NoEvent
            \/ task[p].pc \in {"closing", "closed", "done"}
    ELSE task[p].pc \in {"set", "done"}

\* The values of the events of pipeline p with the type, in reception order.
C20_Received(p, type) ==
    LET es == SelectSeq(received, LAMBDA e : e.pipeline_id = p /\ e.type = type)
    IN [i \in 1..Len(es) |-> es[i].val]

\* C20: the events of a pool are handled in reception order, each with its
\* effects complete before the next one and its handlers run before the
\* waiters are offered it: when the waiter for the terminal state of a
\* pipeline is resolved, every record event received before is in the
\* stream of its type and every output event in the output stream of the
\* invocation, in reception order.
C20_EarlierEventsInStreams ==
    \A p \in Pipes :
        C20_TerminalWaiterResolved(p) =>
            /\ \A name \in StreamNames :
                  streams[p][name] = C20_Received(p, RecordType(name))
            /\ C14_EndsWith(out[p][IF task[p].supplied THEN "caller" ELSE "own"],
                            C20_Received(p, "PipelineOutput"))

\* ------------------------------------------------------------------------
\* C21: once the terminal state has reached an invoke / connect task, the
\* task closes the pipeline, then fires the completion callback, then ends
\* with its value or error: the callback is fired after the close() of the
\* task has returned and never while the pipeline is in the pool's table,
\* and a task given a callback does not end before it has fired it.
\* ------------------------------------------------------------------------
C21_CloseThenCallbackThenResult ==
    \A p \in Pipes :
        /\ completion[p].fired => (completion[p].after_close /\ ~completion[p].in_table)
        /\ (completion[p].given /\ task[p].pc = "done") => completion[p].fired

\* ------------------------------------------------------------------------
\* C22: the waiter for the terminal state of an invocation is armed before
\* the pipeline is started, entered in the table or its command sent, and
\* the task resolves on a state event that is Completed, Failed or Stopped
\* ------------------------------------------------------------------------
\* The task of p has a pending waiter for the state event: the
\* MessageResult in the pipeline's handler list, or the Event of _new_task.
C22_Armed(p) ==
    IF facade = "async"
    THEN \E i \in DOMAIN result_handler[p] : result_handler[p][i].id = Waiter("task", p)
    ELSE sync_completed[p].invoke

\* The wait of the task of p has been resolved.
C22_Resolved(p) ==
    IF facade = "async"
    THEN wait_result[Waiter("task", p)] # NoEvent
    ELSE task[p].pc \in {"set", "done"}

\* C22: invoke_async arms the waiter of its task before the pipeline is
\* started, entered in the pool's table or its command sent, so that no
\* terminal PipelineState event of the invocation is handled without the
\* waiter pending, and the wait resolves only on a PipelineState event whose
\* state is Completed, Failed or Stopped.
C22_ArmedBeforeStartResolvedByTerminal ==
    [][\A p \in Pipes :
          /\ (pstate'[p] # "NotStarted" \/ p \in pipeline_table' \/ ops'[p] # <<>>)
                => (C22_Armed(p)' \/ C22_Resolved(p)')
          /\ final_event'[p] # final_event[p] => C22_Armed(p)
          /\ (~C22_Resolved(p) /\ C22_Resolved(p)')
                => /\ final_event'[p] # NoEvent
                   /\ final_event'[p].state \in {"Completed", "Failed", "Stopped"}]_vars

\* ------------------------------------------------------------------------
\* C23: an event for a pipeline id that is not in the table
\* ------------------------------------------------------------------------
\* The step hands the dispatcher an event whose pipeline id is not in the
\* pool's table.
C23_UnknownPipelineEvent ==
    /\ received' # received
    /\ received'[Len(received')].pipeline_id # NoPid
    /\ received'[Len(received')].pipeline_id \notin pipeline_table

\* C23: an event that carries a pipeline id which is not in the pool's
\* pipeline table does not make the dispatcher fail or stop and changes no
\* pool or pipeline state, so that later events are still handled.
C23_UnknownPipelineEventIgnored ==
    [][C23_UnknownPipelineEvent =>
          /\ dispatch_raised' = "none"
          /\ listener' = listener
          /\ UNCHANGED <<state, pipeline_table, result_handler, wait_result, ci_table,
                         host_responses, ops, pipeVars>>]_vars

\* ------------------------------------------------------------------------
\* C24: stop_async sends one signal and its task resolves at the
\* acknowledgement, without a PipelineState waiter
\* ------------------------------------------------------------------------
\* The transport signals sent for pipeline p.
C24_Signals(p) == SelectSeq(ops[p], LAMBDA op : op = "signal")

\* C24: stop_async sends exactly one transport signal for the pipeline, its
\* task is resolved once the signal is acknowledged, whether or not a
\* PipelineState event has been received, and stop / stop_async register no
\* waiter for a PipelineState event: the only such waiter of the pipeline is
\* the one of its invoke task.
C24_StopResolvesAtAck ==
    \A p \in Pipes :
        /\ Len(C24_Signals(p)) = (IF task[p].stop = "none" THEN 0 ELSE 1)
        /\ task[p].stop # "waiting"
        /\ ~sync_completed[p].stop
        /\ \A i \in DOMAIN result_handler[p] :
              result_handler[p][i].event_type = "PipelineState"
                  => result_handler[p][i].id = Waiter("task", p)

\* ------------------------------------------------------------------------
\* C25: the dispatcher after a void host method has failed
\* ------------------------------------------------------------------------
\* C25: when the last event handled is a host call of a void method that
\* failed, the dispatcher is not blocked in a wait that only a later inbound
\* event could release: it is free to receive the next event.
C25_DispatcherFreeAfterVoidFailure ==
    (/\ last_event # NoEvent
     /\ last_event.type \in HostCallTypes
     /\ host_method_table(last_event.text).is_void
     /\ last_call \in {"raised", "absent"})
        => listener # "blocked"

\* ------------------------------------------------------------------------
\* C26: the order of close() on a pool that is not Disconnected
\* ------------------------------------------------------------------------
\* The wait of close() for the pool state is armed: its MessageResult is in
\* the pool's handler list / its Condition is held.
C26_Armed ==
    \E i \in DOMAIN result_handler[NoPid] : result_handler[NoPid][i].id = Waiter("close", 0)

\* The step issues the transport close of the pool.
C26_IssuesPoolClose ==
    /\ Len(ops'[NoPid]) = Len(ops[NoPid]) + 1
    /\ ops'[NoPid][Len(ops'[NoPid])] = "close"

\* The step is the return of a close() that issued the transport close.
C26_CloseReturns ==
    /\ pool_call.op = "close"
    /\ pool_call.pc \in {"waiting", "check"}
    /\ pool_call'.pc = "returned"

C27_Issued(all, op) == Len(SelectSeq(all[NoPid], LAMBDA x : x = op))

\* The step hands the dispatcher the next event of the handshake.
C27_HandshakeEvent ==
    /\ pool_call.op = "connect"
    /\ peer_pool # <<>>
    /\ peer_pool' = Tail(peer_pool)

\* C27: connect() on a new-client pool has its waiter armed for each event
\* of the handshake when the event is handled, issues the transport connect
\* once and no reconnect, sets the state Opened only when SessionCapability,
\* RunspacePoolInitData and ApplicationPrivateData have all been received,
\* and clears new_client with it; connect() on a pool that is not a new
\* client issues a reconnect and nothing else and sets the state Opened.
C27_ConnectHandshake ==
    [][/\ C27_HandshakeEvent
          => \E i \in DOMAIN result_handler[NoPid] :
                result_handler[NoPid][i].event_type = Head(peer_pool)
       /\ C27_Issued(ops', "connect") <= 1
       /\ new_client' => C27_Issued(ops', "reconnect") = 0
       /\ (new_client /\ state # "Opened" /\ state' = "Opened")
          => /\ \A i \in 1..3 : wait_result[Waiter(HandshakeWaits[i], 0)].type = HandshakeTypes[i]
             /\ ~new_client'
             /\ C27_Issued(ops', "connect") = 1
       /\ (new_client /\ ~new_client') => state' = "Opened"
       /\ C27_Issued(ops', "reconnect") > C27_Issued(ops, "reconnect")
          => /\ ~new_client
             /\ ops' = Issue(NoPid, "reconnect")
             /\ state' = "Opened"
             /\ pool_call'.pc = "returned"]_vars

\* connect() has returned on a new-client pool after the three events, and
\* after a disconnect() a second connect() has issued a reconnect.
C27_ConnectedThenReconnected ==
    /\ pool_call.op = "connect"
    /\ pool_call.pc = "returned"
    /\ state = "Opened"
    /\ ~new_client
    /\ C27_Issued(ops, "connect") = 1
    /\ C27_Issued(ops, "reconnect") = 1
    /\ \A i \in 1..3 : wait_result[Waiter(HandshakeWaits[i], 0)] # NoEvent

\* ------------------------------------------------------------------------
\* C28: the handshake of connect() in every arrival order
\* ------------------------------------------------------------------------
\* C28: while connect() on a new-client pool waits for an event of the
\* handshake it has not received, the peer's next event can be handled by
\* the dispatcher: no arrival order of the three events leaves connect()
\* waiting for the dispatcher and the dispatcher waiting for connect().
C28_HandshakeCompletesInAnyOrder ==
    (/\ pool_call.op = "connect"
     /\ pool_call.pc \in {"sess", "init", "data"}
     /\ wait_result[WaitOf(pool_call.pc)] = NoEvent)
        => /\ peer_pool # <<>>
           /\ ConditionFree(Head(peer_pool))

\* ------------------------------------------------------------------------
\* C29: where record events and output events are appended
\* ------------------------------------------------------------------------
\* C29: in every step in which a record event is received, its record is
\* appended to the stream of the event's type on the receiver, the pipeline
\* of its pipeline id or else the pool, and no other stream nor any output
\* stream changes; a PipelineOutput event is appended to the current output
\* stream of its pipeline and changes nothing else of the streams.
C29_RecordToMatchingStream ==
    [][n_received' = n_received + 1
       => /\ last_event'.type \in RecordTypes
             => /\ streams' = [streams EXCEPT
                                 ![last_event'.pipeline_id][StreamOf(last_event'.type)] =
                                     Append(@, last_event'.val)]
                /\ out' = out
          /\ last_event'.type = "PipelineOutput"
             => /\ out' = [out EXCEPT
                             ![last_event'.pipeline_id][output_target[last_event'.pipeline_id]] =
                                 Append(@, last_event'.val)]
                /\ streams' = streams]_vars

\* ------------------------------------------------------------------------
\* C30: a host call for a method the host does not have
\* ------------------------------------------------------------------------
\* C30: in every step in which a host call is received whose method, or the
\* ui / raw_ui that would hold it, is absent on the host, a method that
\* returns a value gets exactly one host response, with an error record and
\* the call id of the event, and a void method gets none and no record is
\* appended to any stream.
C30_AbsentMethod ==
    [][(/\ n_received' = n_received + 1
        /\ last_event'.type \in HostCallTypes
        /\ last_call' = "absent")
       => IF host_method_table(last_event'.text).is_void
          THEN host_responses' = host_responses /\ streams' = streams
          ELSE host_responses' = Append(host_responses,
                                        [ci |-> last_event'.ci, error |-> TRUE])]_vars

\* ------------------------------------------------------------------------
\* C31: a protocol append that races with complete()
\* ------------------------------------------------------------------------
\* C31: the step in which a protocol append leaves its data_adding
\* subscribers never fails, also when the collection was completed while
\* they ran: it inserts the value at the end or leaves the items as they
\* are, and raises nothing into the dispatcher.
C31_RacingAppendNeverFails ==
    [][(append_pc = "adding" /\ append_pc' = "idle")
       => /\ coll_error' = "none"
          /\ items' \in {items, Append(items, append_val)}]_vars

\* ------------------------------------------------------------------------
\* C32: the collection while a consumer holds a yielded item
\* ------------------------------------------------------------------------
\* C32: while the consumer of an iterator is between two steps of the
\* iterator, processing the item it was given, the condition of the
\* collection is not held: a protocol append at its insertion, a complete()
\* at its notification and the steps of the other iterators can go on.
C32_LockFreeWhileConsuming ==
    \A i \in Iters : iters[i].pc = "yielded" => add_lock = 0

\* ------------------------------------------------------------------------
\* C33: what resolves an availability operation
\* ------------------------------------------------------------------------
\* The event the wait of the availability operation with call id c ends on:
\* the one its MessageResult captured / the entry of _ci_table for c.
C33_ResolvedBy(c) ==
    IF facade = "async" THEN wait_result[Waiter("avail", c)] ELSE ci_table[c]

\* C33: in every step in which an availability operation ends its wait, the
\* event that ends it is a Get / SetRunspaceAvailability event with the call
\* id of the operation, never a host call event with that call id or the
\* bookkeeping entry made for one.
C33_OnlyAvailabilityEventResolves ==
    [][\A c \in 1..MaxCi :
          (avail[c].pc \in {"check", "waiting"} /\ avail'[c].pc \in {"returned", "raised"})
             => /\ C33_ResolvedBy(c).type \in {"GetRunspaceAvailability",
                                               "SetRunspaceAvailability"}
                /\ C33_ResolvedBy(c).ci = c]_vars

\* ------------------------------------------------------------------------
\* C34: the result of an invocation after an earlier one of the pipeline
\* ------------------------------------------------------------------------
\* C34: a task that has ended on Completed, of an invocation made without
\* an output stream of the caller, has returned the list of the outputs of
\* that invocation, the contents of the stream made for it, whatever
\* stream an earlier invocation of the pipeline was given.
C34_OwnOutputReturned ==
    \A p \in Pipes :
        (task[p].pc = "done" /\ ~task[p].supplied /\ final_event[p].state = "Completed")
            => task[p].result = [kind |-> "list", msg |-> "", items |-> out[p]["own"]]

\* ------------------------------------------------------------------------
\* C35: the stream of the running invocation across stop()
\* ------------------------------------------------------------------------
\* C35: the step of stop() / stop_async() that sends the signal leaves the
\* stream the outputs of the running invocation go to, and its contents, as
\* they were; every record received afterwards is appended to the stream
\* the invocation started with.
C35_StopKeepsOutputStream ==
    [][\A p \in Pipes :
          /\ (task[p].stop = "none" /\ task'[p].stop = "signal")
                => (output_target'[p] = output_target[p] /\ out'[p] = out[p])
          /\ (task[p].stop # "none" /\ out'[p] # out[p])
                => out'[p]["stop"] = out[p]["stop"]]_vars

\* ------------------------------------------------------------------------
\* C36: the pipeline table after close() of the pool
\* ------------------------------------------------------------------------
\* C36: when close() has returned on a pool that was not Disconnected (it
\* issued the transport close of the pool), the pipeline table is empty.
C36_TableEmptyAfterClose ==
    (/\ pool_call.op = "close"
     /\ pool_call.pc = "returned"
     /\ \E i \in DOMAIN ops[NoPid] : ops[NoPid][i] = "close")
        => pipeline_table = {}

\* ------------------------------------------------------------------------
\* C37: a pipeline state that is terminal stays
\* ------------------------------------------------------------------------
\* C37: no step changes the state of a pipeline that is Completed, Failed
\* or Stopped.
C37_TerminalStateKept ==
    [][\A p \in Pipes :
          pstate[p] \in {"Completed", "Failed", "Stopped"} => pstate'[p] = pstate[p]]_vars

\* ------------------------------------------------------------------------
\* C38: complete() / finalize() on a collection that is completed
\* ------------------------------------------------------------------------
\* C38: a step of complete() (finalize()) made after an earlier call has
\* returned changes neither the completed flag, nor the contents, nor the
\* count of on_completed notifications, nor any iterator.
C38_CompleteIdempotent ==
    [][(/\ complete_returns >= 1
        /\ complete_pc' # complete_pc \/ complete_returns' # complete_returns)
          => /\ completed' = completed
             /\ items' = items
             /\ fired' = fired
             /\ iters' = iters]_vars

\* ------------------------------------------------------------------------
\* C39: callbacks of the caller that fail
\* ------------------------------------------------------------------------
\* The run of callbacks the step has made.
C39_Run == subscribers'[Len(subscribers')]

\* C39: every step that runs callbacks of the caller calls each of them,
\* whatever the ones before it did, and goes on as if none had failed: the
\* dispatcher raises nothing and every waiter that accepts the event has
\* it, the item of _append is on its way into the collection, the task
\* goes on to close the pipeline.
C39_FailingCallbackDoesNotAbort ==
    [][Len(subscribers') > Len(subscribers)
          => /\ C39_Run.called = Len(C39_Run.outcomes)
             /\ ~C39_Run.raised
             /\ C39_Run.kind \in {"state_changed", "user_event"}
                   => /\ dispatch_raised' = "none"
                      /\ \A id \in Accepting(result_handler[C39_Run.event.pipeline_id],
                                             C39_Run.event) :
                            wait_result'[id] = C39_Run.event
             /\ C39_Run.kind = "data_adding" => append_pc' = "adding"
             /\ C39_Run.kind = "completed" => task'[1].pc = "closing"]_vars

\* Callbacks of each kind have failed: the second state_changed subscriber
\* was called after the first failed, the task got its event, called its
\* failing completed callback, closed the pipeline and returned, and the
\* item whose data_adding subscriber failed is in the collection.
C39_FailedAndDelivered ==
    /\ \E i \in DOMAIN subscribers :
          /\ subscribers[i].kind = "state_changed"
          /\ subscribers[i].outcomes = <<"raise", "ok">>
          /\ subscribers[i].called = 2
    /\ \E i \in DOMAIN subscribers :
          subscribers[i].kind = "completed" /\ subscribers[i].outcomes = <<"raise">>
    /\ \E i \in DOMAIN subscribers :
          subscribers[i].kind = "data_adding" /\ subscribers[i].outcomes = <<"raise">>
    /\ task[1].pc = "done"
    /\ task[1].result.kind = "list"
    /\ 1 \notin pipeline_table
    /\ Len(items) = 1
    /\ append_pc = "idle"

\* ------------------------------------------------------------------------
\* C40: the table of get_host_method against the interface classes
\* ------------------------------------------------------------------------
\* The host tree provides all three capability sets for the receiver o.
C40_FullHost(o) ==
    (IF o = NoPid THEN host ELSE EffectiveHost(o)) = "raw_ui"

\* C40: the method name the table gives for an identifier is a method of
\* the interface class of its target, so no host call received on a host
\* tree with host, ui and raw_ui finds its method absent.
C40_EveryIdentifierResolves ==
    [][(/\ n_received' = n_received + 1
        /\ last_event'.type \in HostCallTypes
        /\ C40_FullHost(last_event'.pipeline_id))
          => /\ last_call' # "absent"
             /\ get_host_method("raw_ui", last_event'.text).invoke]_vars

====
